---- MODULE Spec2Model ----
(***************************************************************************)
(* Model of packages/compiler/src/output/abstract_emitter.ts:              *)
(*   - EmitterVisitorContext: the line buffer, the indent counter and the  *)
(*     position-map assembly (toSourceMapGenerator);                       *)
(*   - AbstractEmitterVisitor: the recursive rendering of statement and    *)
(*     expression trees through the context.                               *)
(* Spec        drives the context through arbitrary calls of its methods.  *)
(* SpecRender  renders one tree, one context call per step.                *)
(***************************************************************************)
EXTENDS Integers, Sequences, FiniteSets

VARIABLES ctx, callCount, scopeLog, returned, map, mapFor, error,
          root, visitor, work, netIndent, firstIndent, adjusted, stmtLog, writeLog

vars == <<ctx, callCount, scopeLog, returned, map, mapFor, error,
          root, visitor, work, netIndent, firstIndent, adjusted, stmtLog, writeLog>>
renderVars == <<root, visitor, work, netIndent, firstIndent, adjusted, stmtLog, writeLog>>

(***************************************************************************)
(* Bounds of the model.                                                    *)
(***************************************************************************)
\* calls a client makes on one context (toSourceMapGenerator not counted)
MaxCalls == 3
\* largest startsAtLine given to toSourceMapGenerator
MaxStartsAtLine == 1
\* largest number of entries of a literal array or map in the trees rendered
MaxEntries == 2
\* largest number of statements of a branch of an if statement in the trees rendered
MaxBlock == 2

(***************************************************************************)
(* Source spans.  A span is an object; two spans are the same span only    *)
(* when they are the same object (===), so a span is modelled by its       *)
(* identity and its fields are looked up in a table.  Spans 1 and 2 point  *)
(* into two different files; spans 3 and 4 (used by the trees of           *)
(* SpecRender) point into the first file.  NoSpan is the null span.        *)
(***************************************************************************)
NoSpan == 0
Spans == {1, 2}
File1 == [url |-> "a.ts", content |-> "A"]
File2 == [url |-> "b.ts", content |-> "B"]
spanStart(s) ==
  IF s = 2 THEN [file |-> File2, line |-> 2, col |-> 5]
           ELSE [file |-> File1, line |-> s, col |-> 4]

NullFrom == [kind |-> "null", sourceSpan |-> NoSpan]
Froms == {NullFrom} \cup {[kind |-> "node", sourceSpan |-> s] : s \in Spans}
PartTexts == {"", "a", "bc"}

(***************************************************************************)
(* _INDENT_WITH and _createIndent                                          *)
(***************************************************************************)
INDENT_WITH == "  "

RECURSIVE createIndent(_)
createIndent(count) ==
  IF count <= 0 THEN "" ELSE INDENT_WITH \o createIndent(count - 1)

(***************************************************************************)
(* class _EmittedLine                                                      *)
(***************************************************************************)
EmittedLine(indent) == [parts |-> <<>>, srcSpans |-> <<>>, indent |-> indent]

(***************************************************************************)
(* class EmitterVisitorContext.  A context is a record of its fields; each *)
(* method is an operator from the context before the call to the context   *)
(* after it.  A method that dereferences the current line of an empty line *)
(* buffer throws a TypeError: the ...Throws predicates say when.           *)
(* A class statement pushed on _classes is an object, modelled by its name.*)
(***************************************************************************)
newContext(indent) == [lines |-> <<EmittedLine(indent)>>, indent |-> indent, classes |-> <<>>]

createRoot == newContext(0)

hasCurrentLine(c) == Len(c.lines) > 0

currentLine(c) == c.lines[Len(c.lines)]

lineIsEmpty(c) == Len(currentLine(c).parts) = 0

sourceSpanOf(from) == IF from.kind = "null" THEN NoSpan ELSE from.sourceSpan

printThrows(c, part) == Len(part) > 0 /\ ~hasCurrentLine(c)

\* mutant: the empty part is appended too
printEmptyPartsToo(c, from, part, newLine) ==
  LET n == Len(c.lines)
      c1 == [c EXCEPT !.lines[n].parts = Append(@, part),
                      !.lines[n].srcSpans = Append(@, sourceSpanOf(from))]
  IN IF newLine
       THEN [c1 EXCEPT !.lines = Append(@, EmittedLine(c1.indent))]
       ELSE c1

\* mutant: the span slot is taken for an empty part too
printSpanOfEmptyPartsToo(c, from, part, newLine) ==
  LET n == Len(c.lines)
      c1 == IF Len(part) > 0
              THEN [c EXCEPT !.lines[n].parts = Append(@, part),
                             !.lines[n].srcSpans = Append(@, sourceSpanOf(from))]
              ELSE IF n > 0
                THEN [c EXCEPT !.lines[n].srcSpans = Append(@, sourceSpanOf(from))]
                ELSE c
  IN IF newLine
       THEN [c1 EXCEPT !.lines = Append(@, EmittedLine(c1.indent))]
       ELSE c1

print(c, from, part, newLine) ==
  LET n == Len(c.lines)
      c1 == IF Len(part) > 0
              THEN [c EXCEPT !.lines[n].parts = Append(@, part),
                             !.lines[n].srcSpans = Append(@, sourceSpanOf(from))]
              ELSE c
  IN IF newLine
       THEN [c1 EXCEPT !.lines = Append(@, EmittedLine(c1.indent))]
       ELSE c1

println(c, from, lastPart) == print(c, from, lastPart, TRUE)

\* mutant: the empty last line stays
removeEmptyLastLineNever(c) == c

removeEmptyLastLine(c) ==
  IF lineIsEmpty(c)
    THEN [c EXCEPT !.lines = SubSeq(@, 1, Len(@) - 1)]
    ELSE c

\* mutant: the line in progress keeps its indent
incIndentCounterOnly(c) == [c EXCEPT !.indent = @ + 1]

incIndent(c) ==
  LET n == Len(c.lines)
      c1 == [c EXCEPT !.indent = @ + 1]
  IN IF n > 0 THEN [c1 EXCEPT !.lines[n].indent = c1.indent] ELSE c1

decIndent(c) ==
  LET n == Len(c.lines)
      c1 == [c EXCEPT !.indent = @ - 1]
  IN IF n > 0 THEN [c1 EXCEPT !.lines[n].indent = c1.indent] ELSE c1

Classes == {"A", "B"}
Null == "null"
Undefined == "undefined"

pushClass(c, clazz) == [c EXCEPT !.classes = Append(@, clazz)]

\* mutant: the oldest class is taken off
popClassOldest(c) ==
  IF Len(c.classes) > 0 THEN [c EXCEPT !.classes = Tail(@)] ELSE c

\* the context after popClass()
popClass(c) ==
  IF Len(c.classes) > 0 THEN [c EXCEPT !.classes = SubSeq(@, 1, Len(@) - 1)] ELSE c

\* the value popClass() returns: Array.prototype.pop gives undefined on an empty array
popClassResult(c) ==
  IF Len(c.classes) > 0 THEN c.classes[Len(c.classes)] ELSE Undefined

currentClass(c) ==
  IF Len(c.classes) > 0 THEN c.classes[Len(c.classes)] ELSE Null

\* mutant: the trailing empty line is kept
sourceLinesAll(c) == c.lines

sourceLines(c) ==
  IF Len(c.lines) > 0 /\ Len(c.lines[Len(c.lines)].parts) = 0
    THEN SubSeq(c.lines, 1, Len(c.lines) - 1)
    ELSE c.lines

(***************************************************************************)
(* toSourceMapGenerator: the calls issued to the SourceMapGenerator, in    *)
(* order.  Every call is a record of the same shape.                       *)
(***************************************************************************)
AddLine == [op |-> "addLine", col |-> 0, url |-> "", content |-> "", line |-> 0, scol |-> 0]
AddSource(url, content) ==
  [op |-> "addSource", col |-> 0, url |-> url, content |-> content, line |-> 0, scol |-> 0]
AddMapping(col0, url, sourceLine, sourceCol) ==
  [op |-> "addMapping", col |-> col0, url |-> url, content |-> "", line |-> sourceLine,
   scol |-> sourceCol]

\* mutant: the leading parts without source spans do not advance the column
RECURSIVE skipLeadingColumnKept(_, _, _)
skipLeadingColumnKept(line, col0, spanIdx) ==
  IF spanIdx <= Len(line.srcSpans) /\ line.srcSpans[spanIdx] = NoSpan
    THEN skipLeadingColumnKept(line, col0, spanIdx + 1)
    ELSE [col0 |-> col0, spanIdx |-> spanIdx]

\* lines 106-109: skip leading parts without source spans
RECURSIVE skipLeading(_, _, _)
skipLeading(line, col0, spanIdx) ==
  IF spanIdx <= Len(line.srcSpans) /\ line.srcSpans[spanIdx] = NoSpan
    THEN skipLeading(line, col0 + Len(line.parts[spanIdx]), spanIdx + 1)
    ELSE [col0 |-> col0, spanIdx |-> spanIdx]

\* mutant: a fragment of the same span starts a new segment
RECURSIVE absorbSegmentSpanlessOnly(_, _, _, _)
absorbSegmentSpanlessOnly(line, span, col0, spanIdx) ==
  IF spanIdx <= Len(line.srcSpans) /\ line.srcSpans[spanIdx] = NoSpan
    THEN absorbSegmentSpanlessOnly(line, span, col0 + Len(line.parts[spanIdx]), spanIdx + 1)
    ELSE [col0 |-> col0, spanIdx |-> spanIdx]

\* lines 124-127: assign parts without span or the same span to the previous segment
RECURSIVE absorbSegment(_, _, _, _)
absorbSegment(line, span, col0, spanIdx) ==
  IF spanIdx <= Len(line.srcSpans)
       /\ (span = line.srcSpans[spanIdx] \/ line.srcSpans[spanIdx] = NoSpan)
    THEN absorbSegment(line, span, col0 + Len(line.parts[spanIdx]), spanIdx + 1)
    ELSE [col0 |-> col0, spanIdx |-> spanIdx]

\* mutant: a source is added only when it differs from the one of the previous segment
RECURSIVE lineSegmentsNewSourceOnly(_, _, _)
lineSegmentsNewSourceOnly(line, col0, spanIdx) ==
  IF spanIdx <= Len(line.srcSpans)
    THEN LET span == line.srcSpans[spanIdx]
             source == spanStart(span).file
             nxt == absorbSegment(line, span, col0 + Len(line.parts[spanIdx]), spanIdx + 1)
             seen == \E j \in 1..(spanIdx - 1) :
                       line.srcSpans[j] # NoSpan /\ spanStart(line.srcSpans[j]).file = source
         IN (IF seen THEN <<>> ELSE <<AddSource(source.url, source.content)>>)
            \o <<AddMapping(col0, source.url, spanStart(span).line, spanStart(span).col)>>
            \o lineSegmentsNewSourceOnly(line, nxt.col0, nxt.spanIdx)
    ELSE <<>>

\* lines 111-128
RECURSIVE lineSegments(_, _, _)
lineSegments(line, col0, spanIdx) ==
  IF spanIdx <= Len(line.srcSpans)
    THEN LET span == line.srcSpans[spanIdx]
             source == spanStart(span).file
             sourceLine == spanStart(span).line
             sourceCol == spanStart(span).col
             nxt == absorbSegment(line, span, col0 + Len(line.parts[spanIdx]), spanIdx + 1)
         IN <<AddSource(source.url, source.content),
              AddMapping(col0, source.url, sourceLine, sourceCol)>>
            \o lineSegments(line, nxt.col0, nxt.spanIdx)
    ELSE <<>>

\* mutant: the indentation is counted as one column per level
lineCallsIndentOneColumn(line) ==
  LET start == skipLeading(line, line.indent, 1)
  IN <<AddLine>> \o lineSegments(line, start.col0, start.spanIdx)

\* lines 99-128: the body of the forEach
lineCalls(line) ==
  LET start == skipLeading(line, line.indent * Len(INDENT_WITH), 1)
  IN <<AddLine>> \o lineSegments(line, start.col0, start.spanIdx)

RECURSIVE allLineCalls(_)
allLineCalls(ls) ==
  IF ls = <<>> THEN <<>> ELSE lineCalls(Head(ls)) \o allLineCalls(Tail(ls))

toSourceMapGenerator(c, startsAtLine) ==
  [i \in 1..startsAtLine |-> AddLine] \o allLineCalls(sourceLines(c))

(***************************************************************************)
(* The output AST (output_ast.ts), as far as the visitor reads it.  A node *)
(* is a record with its kind, its sourceSpan and the fields the visitor of *)
(* that kind reads.  A string value is a sequence of characters, so that   *)
(* escapeIdentifier can look at each of them.                              *)
(***************************************************************************)
NodeSpan == 1
WriteSpan == 3
BinarySpan == 4

NoBuiltin == "none"

ReadVarExpr(name) ==
  [kind |-> "ReadVarExpr", sourceSpan |-> NodeSpan, name |-> name, builtin |-> NoBuiltin]
BuiltinVarExpr(builtin) ==
  [kind |-> "ReadVarExpr", sourceSpan |-> NodeSpan, name |-> "", builtin |-> builtin]
WriteVarExpr(name, value) ==
  [kind |-> "WriteVarExpr", sourceSpan |-> WriteSpan, name |-> name, value |-> value]
WriteKeyExpr(receiver, index, value) ==
  [kind |-> "WriteKeyExpr", sourceSpan |-> WriteSpan, receiver |-> receiver, index |-> index,
   value |-> value]
WritePropExpr(receiver, name, value) ==
  [kind |-> "WritePropExpr", sourceSpan |-> WriteSpan, receiver |-> receiver, name |-> name,
   value |-> value]
InvokeMethodExpr(receiver, name, builtin, args) ==
  [kind |-> "InvokeMethodExpr", sourceSpan |-> NodeSpan, receiver |-> receiver, name |-> name,
   builtin |-> builtin, args |-> args]
InvokeFunctionExpr(fn, args) ==
  [kind |-> "InvokeFunctionExpr", sourceSpan |-> NodeSpan, fn |-> fn, args |-> args]
InstantiateExpr(classExpr, args) ==
  [kind |-> "InstantiateExpr", sourceSpan |-> NodeSpan, classExpr |-> classExpr, args |-> args]
NumberLiteral(n) ==
  [kind |-> "LiteralExpr", sourceSpan |-> NoSpan, isString |-> FALSE, number |-> n, chars |-> <<>>]
StringLiteral(chars) ==
  [kind |-> "LiteralExpr", sourceSpan |-> NoSpan, isString |-> TRUE, number |-> 0, chars |-> chars]
ConditionalExpr(condition, trueCase, falseCase) ==
  [kind |-> "ConditionalExpr", sourceSpan |-> NodeSpan, condition |-> condition,
   trueCase |-> trueCase, falseCase |-> falseCase]
NotExpr(condition) ==
  [kind |-> "NotExpr", sourceSpan |-> NodeSpan, condition |-> condition]
BinaryOperatorExpr(operator, lhs, rhs) ==
  [kind |-> "BinaryOperatorExpr", sourceSpan |-> BinarySpan, operator |-> operator, lhs |-> lhs,
   rhs |-> rhs]
ReadPropExpr(receiver, name) ==
  [kind |-> "ReadPropExpr", sourceSpan |-> NodeSpan, receiver |-> receiver, name |-> name]
ReadKeyExpr(receiver, index) ==
  [kind |-> "ReadKeyExpr", sourceSpan |-> NodeSpan, receiver |-> receiver, index |-> index]
LiteralArrayExpr(entries) ==
  [kind |-> "LiteralArrayExpr", sourceSpan |-> NodeSpan, entries |-> entries]
LiteralMapEntry(key, value, quoted) == [key |-> key, value |-> value, quoted |-> quoted]
LiteralMapExpr(entries) ==
  [kind |-> "LiteralMapExpr", sourceSpan |-> NodeSpan, entries |-> entries]

ExpressionStatement(expr) ==
  [kind |-> "ExpressionStatement", sourceSpan |-> NodeSpan, expr |-> expr]
ReturnStatement(value) ==
  [kind |-> "ReturnStatement", sourceSpan |-> NodeSpan, value |-> value]
IfStmt(condition, trueCase, falseCase) ==
  [kind |-> "IfStmt", sourceSpan |-> NodeSpan, condition |-> condition, trueCase |-> trueCase,
   falseCase |-> falseCase]
ThrowStmt(err) ==
  [kind |-> "ThrowStmt", sourceSpan |-> NodeSpan, error |-> err]
\* comment: the lines of the comment, i.e. stmt.comment.split('\n')
CommentStmt(commentLines) ==
  [kind |-> "CommentStmt", sourceSpan |-> NoSpan, comment |-> commentLines]

(***************************************************************************)
(* escapeIdentifier                                                        *)
(***************************************************************************)
LowerCase == {"a", "b", "c", "d", "e", "f", "g", "h", "i", "j", "k", "l", "m", "n", "o", "p",
              "q", "r", "s", "t", "u", "v", "w", "x", "y", "z"}
UpperCase == {"A", "B", "C", "D", "E", "F", "G", "H", "I", "J", "K", "L", "M", "N", "O", "P",
              "Q", "R", "S", "T", "U", "V", "W", "X", "Y", "Z"}
Digits == {"0", "1", "2", "3", "4", "5", "6", "7", "8", "9"}

\* _SINGLE_QUOTE_ESCAPE_STRING_RE and its replacer, for one character
escapeChar(ch, escapeDollar) ==
  IF ch = "$" THEN (IF escapeDollar THEN <<"\\", "$">> ELSE <<"$">>)
  ELSE IF ch = "\n" THEN <<"\\", "n">>
  ELSE IF ch = "\r" THEN <<"\\", "r">>
  ELSE IF ch \in {"'", "\\"} THEN <<"\\", ch>>
  ELSE <<ch>>

RECURSIVE escapeBody(_, _)
escapeBody(chars, escapeDollar) ==
  IF chars = <<>> THEN <<>>
  ELSE escapeChar(Head(chars), escapeDollar) \o escapeBody(Tail(chars), escapeDollar)

\* _LEGAL_IDENTIFIER_RE = /^[$A-Z_][0-9A-Z_$]*$/i
isLegalIdentifier(body) ==
  /\ Len(body) > 0
  /\ body[1] \in LowerCase \cup UpperCase \cup {"$", "_"}
  /\ \A i \in 2..Len(body) : body[i] \in LowerCase \cup UpperCase \cup Digits \cup {"$", "_"}

RECURSIVE joinChars(_)
joinChars(chars) == IF chars = <<>> THEN "" ELSE Head(chars) \o joinChars(Tail(chars))

escapeIdentifier(input, escapeDollar, alwaysQuote) ==
  LET body == escapeBody(input, escapeDollar)
      requiresQuotes == alwaysQuote \/ ~isLegalIdentifier(body)
  IN IF requiresQuotes THEN "'" \o joinChars(body) \o "'" ELSE joinChars(body)

\* `${value}` of a number that is a natural
digitText(d) ==
  CASE d = 0 -> "0" [] d = 1 -> "1" [] d = 2 -> "2" [] d = 3 -> "3" [] d = 4 -> "4"
    [] d = 5 -> "5" [] d = 6 -> "6" [] d = 7 -> "7" [] d = 8 -> "8" [] d = 9 -> "9"

RECURSIVE numberText(_)
numberText(n) == IF n < 10 THEN digitText(n) ELSE numberText(n \div 10) \o digitText(n % 10)

(***************************************************************************)
(* AbstractEmitterVisitor.  Rendering is a recursion over the tree; it is  *)
(* modelled by a stack of pending work (the continuation of the recursion):*)
(* a visit method replaces the node on top of the stack by the context     *)
(* calls and the child visits its body makes, in order, and every context  *)
(* call is a step of its own.                                              *)
(***************************************************************************)
\* AbstractEmitterVisitor.constructor, of a concrete emitter whose
\* getBuiltinMethodName returns nothing for the builtin methods of unnamedBuiltins
newVisitor(escapeDollarInStrings, unnamedBuiltins) ==
  [escapeDollarInStrings |-> escapeDollarInStrings, unnamedBuiltins |-> unnamedBuiltins]

Item(k, node, from, part, newLine, depth) ==
  [k |-> k, node |-> node, from |-> from, part |-> part, newLine |-> newLine, depth |-> depth]

PrintItem(from, part, newLine) == Item("print", NullFrom, from, part, newLine, 0)
PrintlnItem(from, lastPart) == PrintItem(from, lastPart, TRUE)
IncIndentItem == Item("incIndent", NullFrom, NullFrom, "", FALSE, 0)
DecIndentItem == Item("decIndent", NullFrom, NullFrom, "", FALSE, 0)
RemoveEmptyLastLineItem == Item("removeEmptyLastLine", NullFrom, NullFrom, "", FALSE, 0)
\* the visit of an expression; depth tells the visit made by a statement (0)
\* from the visit made by the visitor of an enclosing expression (1)
StmtExprItem(expr) == Item("expr", expr, NullFrom, "", FALSE, 0)
ExprItem(expr) == Item("expr", expr, NullFrom, "", FALSE, 1)
StmtItem(stmt, depth) == Item("stmt", stmt, NullFrom, "", FALSE, depth)

RECURSIVE visitAllObjectsFrom(_, _, _, _)
visitAllObjectsFrom(handled, i, separator, newLine) ==
  IF i > Len(handled) THEN <<>>
  ELSE (IF i > 1 THEN <<PrintItem(NullFrom, separator, newLine)>> ELSE <<>>)
       \o handled[i]
       \o visitAllObjectsFrom(handled, i + 1, separator, newLine)

\* mutant: the separator follows the last entry too
visitAllObjectsSeparatorAfterEach(handled, separator, newLine) ==
  visitAllObjectsFrom(handled, 1, separator, newLine)
    \o (IF Len(handled) > 0 THEN <<PrintItem(NullFrom, separator, FALSE)>> ELSE <<>>)
    \o (IF newLine THEN <<PrintlnItem(NullFrom, "")>> ELSE <<>>)

\* handled[i] is what handler(expressions[i]) does
visitAllObjects(handled, separator, newLine) ==
  visitAllObjectsFrom(handled, 1, separator, newLine)
    \o (IF newLine THEN <<PrintlnItem(NullFrom, "")>> ELSE <<>>)

visitAllExpressions(expressions, separator, newLine) ==
  visitAllObjects([i \in 1..Len(expressions) |-> <<ExprItem(expressions[i])>>],
                  separator, newLine)

visitAllStatements(statements, depth) ==
  [i \in 1..Len(statements) |-> StmtItem(statements[i], depth)]

visitExpressionStmt(stmt) == <<StmtExprItem(stmt.expr), PrintlnItem(stmt, ";")>>

visitReturnStmt(stmt) ==
  <<PrintItem(stmt, "return ", FALSE), StmtExprItem(stmt.value), PrintlnItem(stmt, ";")>>

\* mutant: the true branch is not indented
visitIfStmtFlat(stmt, depth) ==
  LET hasElseCase == Len(stmt.falseCase) > 0
  IN <<PrintItem(stmt, "if (", FALSE), StmtExprItem(stmt.condition), PrintItem(stmt, ") {", FALSE)>>
     \o (IF Len(stmt.trueCase) <= 1 /\ ~hasElseCase
           THEN <<PrintItem(stmt, " ", FALSE)>>
                \o visitAllStatements(stmt.trueCase, depth + 1)
                \o <<RemoveEmptyLastLineItem, PrintItem(stmt, " ", FALSE)>>
           ELSE <<PrintlnItem(NullFrom, "")>>
                \o visitAllStatements(stmt.trueCase, depth + 1)
                \o (IF hasElseCase
                      THEN <<PrintlnItem(stmt, "} else {"), IncIndentItem>>
                           \o visitAllStatements(stmt.falseCase, depth + 1)
                           \o <<DecIndentItem>>
                      ELSE <<>>))
     \o <<PrintlnItem(stmt, "}")>>

visitIfStmt(stmt, depth) ==
  LET hasElseCase == Len(stmt.falseCase) > 0
  IN <<PrintItem(stmt, "if (", FALSE), StmtExprItem(stmt.condition), PrintItem(stmt, ") {", FALSE)>>
     \o (IF Len(stmt.trueCase) <= 1 /\ ~hasElseCase
           THEN <<PrintItem(stmt, " ", FALSE)>>
                \o visitAllStatements(stmt.trueCase, depth + 1)
                \o <<RemoveEmptyLastLineItem, PrintItem(stmt, " ", FALSE)>>
           ELSE <<PrintlnItem(NullFrom, ""), IncIndentItem>>
                \o visitAllStatements(stmt.trueCase, depth + 1)
                \o <<DecIndentItem>>
                \o (IF hasElseCase
                      THEN <<PrintlnItem(stmt, "} else {"), IncIndentItem>>
                           \o visitAllStatements(stmt.falseCase, depth + 1)
                           \o <<DecIndentItem>>
                      ELSE <<>>))
     \o <<PrintlnItem(stmt, "}")>>

visitThrowStmt(stmt) ==
  <<PrintItem(stmt, "throw ", FALSE), StmtExprItem(stmt.error), PrintlnItem(stmt, ";")>>

visitCommentStmt(stmt) ==
  [i \in 1..Len(stmt.comment) |-> PrintlnItem(stmt, "// " \o stmt.comment[i])]

visitWriteVarExpr(expr, c) ==
  LET lineWasEmpty == lineIsEmpty(c)
  IN (IF ~lineWasEmpty THEN <<PrintItem(expr, "(", FALSE)>> ELSE <<>>)
     \o <<PrintItem(expr, expr.name \o " = ", FALSE), ExprItem(expr.value)>>
     \o (IF ~lineWasEmpty THEN <<PrintItem(expr, ")", FALSE)>> ELSE <<>>)

visitWriteKeyExpr(expr, c) ==
  LET lineWasEmpty == lineIsEmpty(c)
  IN (IF ~lineWasEmpty THEN <<PrintItem(expr, "(", FALSE)>> ELSE <<>>)
     \o <<ExprItem(expr.receiver), PrintItem(expr, "[", FALSE), ExprItem(expr.index),
          PrintItem(expr, "] = ", FALSE), ExprItem(expr.value)>>
     \o (IF ~lineWasEmpty THEN <<PrintItem(expr, ")", FALSE)>> ELSE <<>>)

\* mutant: the assignment is always wrapped
visitWritePropExprWrapped(expr, c) ==
  <<PrintItem(expr, "(", FALSE), ExprItem(expr.receiver),
    PrintItem(expr, "." \o expr.name \o " = ", FALSE), ExprItem(expr.value),
    PrintItem(expr, ")", FALSE)>>

visitWritePropExpr(expr, c) ==
  LET lineWasEmpty == lineIsEmpty(c)
  IN (IF ~lineWasEmpty THEN <<PrintItem(expr, "(", FALSE)>> ELSE <<>>)
     \o <<ExprItem(expr.receiver), PrintItem(expr, "." \o expr.name \o " = ", FALSE),
          ExprItem(expr.value)>>
     \o (IF ~lineWasEmpty THEN <<PrintItem(expr, ")", FALSE)>> ELSE <<>>)

\* the builtin-method-name hook of the concrete emitter (abstract here): the
\* name of the method, or NoName when the call is to be skipped
NoName == "null"
BuiltinMethods == {"ConcatArray", "SubscribeObservable", "Bind"}
getBuiltinMethodName(method, this) ==
  IF method \in this.unnamedBuiltins THEN NoName
  ELSE CASE method = "ConcatArray" -> "concat"
         [] method = "SubscribeObservable" -> "subscribe"
         [] method = "Bind" -> "bind"

\* mutant: the call is printed whatever the hook returns
visitInvokeMethodExprNeverSkipped(expr, this) ==
  LET name == IF expr.builtin # NoBuiltin
                THEN getBuiltinMethodName(expr.builtin, this)
                ELSE expr.name
  IN <<ExprItem(expr.receiver), PrintItem(expr, "." \o name \o "(", FALSE)>>
     \o visitAllExpressions(expr.args, ",", FALSE)
     \o <<PrintItem(expr, ")", FALSE)>>

visitInvokeMethodExpr(expr, this) ==
  LET name == IF expr.builtin # NoBuiltin
                THEN getBuiltinMethodName(expr.builtin, this)
                ELSE expr.name
  IN <<ExprItem(expr.receiver)>>
     \o (IF expr.builtin # NoBuiltin /\ name = NoName
           THEN <<>>
           ELSE <<PrintItem(expr, "." \o name \o "(", FALSE)>>
                \o visitAllExpressions(expr.args, ",", FALSE)
                \o <<PrintItem(expr, ")", FALSE)>>)

visitInvokeFunctionExpr(expr) ==
  <<ExprItem(expr.fn), PrintItem(expr, "(", FALSE)>>
    \o visitAllExpressions(expr.args, ",", FALSE)
    \o <<PrintItem(expr, ")", FALSE)>>

BuiltinVars == {"Super", "This", "CatchError", "CatchStack"}
CATCH_ERROR_VAR == ReadVarExpr("error")
CATCH_STACK_VAR == ReadVarExpr("stack")

visitReadVarExprThrows(ast) == ast.builtin # NoBuiltin /\ ast.builtin \notin BuiltinVars

visitReadVarExpr(ast) ==
  LET varName ==
        IF ast.builtin = NoBuiltin THEN ast.name
        ELSE CASE ast.builtin = "Super" -> "super"
               [] ast.builtin = "This" -> "this"
               [] ast.builtin = "CatchError" -> CATCH_ERROR_VAR.name
               [] ast.builtin = "CatchStack" -> CATCH_STACK_VAR.name
  IN <<PrintItem(ast, varName, FALSE)>>

visitInstantiateExpr(ast) ==
  <<PrintItem(ast, "new ", FALSE), ExprItem(ast.classExpr), PrintItem(ast, "(", FALSE)>>
    \o visitAllExpressions(ast.args, ",", FALSE)
    \o <<PrintItem(ast, ")", FALSE)>>

visitLiteralExpr(ast, this) ==
  IF ast.isString
    THEN <<PrintItem(ast, escapeIdentifier(ast.chars, this.escapeDollarInStrings, TRUE), FALSE)>>
    ELSE <<PrintItem(ast, numberText(ast.number), FALSE)>>

visitConditionalExpr(ast) ==
  <<PrintItem(ast, "(", FALSE), ExprItem(ast.condition), PrintItem(ast, "? ", FALSE),
    ExprItem(ast.trueCase), PrintItem(ast, ": ", FALSE), ExprItem(ast.falseCase),
    PrintItem(ast, ")", FALSE)>>

visitNotExpr(ast) == <<PrintItem(ast, "!", FALSE), ExprItem(ast.condition)>>

BinaryOperators == {"Equals", "Identical", "NotEquals", "NotIdentical", "And", "Or", "Plus",
                    "Minus", "Divide", "Multiply", "Modulo", "Lower", "LowerEquals", "Bigger",
                    "BiggerEquals"}

opStr(operator) ==
  CASE operator = "Equals" -> "=="
    [] operator = "Identical" -> "==="
    [] operator = "NotEquals" -> "!="
    [] operator = "NotIdentical" -> "!=="
    [] operator = "And" -> "&&"
    [] operator = "Or" -> "||"
    [] operator = "Plus" -> "+"
    [] operator = "Minus" -> "-"
    [] operator = "Divide" -> "/"
    [] operator = "Multiply" -> "*"
    [] operator = "Modulo" -> "%"
    [] operator = "Lower" -> "<"
    [] operator = "LowerEquals" -> "<="
    [] operator = "Bigger" -> ">"
    [] operator = "BiggerEquals" -> ">="

visitBinaryOperatorExprThrows(ast) == ast.operator \notin BinaryOperators

\* mutant: an operand that is no binary expression itself gets no parentheses around it
visitBinaryOperatorExprBare(ast) ==
  IF ast.lhs.kind = "BinaryOperatorExpr" \/ ast.rhs.kind = "BinaryOperatorExpr"
    THEN <<PrintItem(ast, "(", FALSE), ExprItem(ast.lhs),
           PrintItem(ast, " " \o opStr(ast.operator) \o " ", FALSE), ExprItem(ast.rhs),
           PrintItem(ast, ")", FALSE)>>
    ELSE <<ExprItem(ast.lhs), PrintItem(ast, " " \o opStr(ast.operator) \o " ", FALSE),
           ExprItem(ast.rhs)>>

visitBinaryOperatorExpr(ast) ==
  <<PrintItem(ast, "(", FALSE), ExprItem(ast.lhs),
    PrintItem(ast, " " \o opStr(ast.operator) \o " ", FALSE), ExprItem(ast.rhs),
    PrintItem(ast, ")", FALSE)>>

visitReadPropExpr(ast) ==
  <<ExprItem(ast.receiver), PrintItem(ast, ".", FALSE), PrintItem(ast, ast.name, FALSE)>>

visitReadKeyExpr(ast) ==
  <<ExprItem(ast.receiver), PrintItem(ast, "[", FALSE), ExprItem(ast.index),
    PrintItem(ast, "]", FALSE)>>

\* mutant: the indent is lowered for the entries and raised after them
visitLiteralArrayExprOutdented(ast) ==
  LET useNewLine == Len(ast.entries) > 1
  IN <<PrintItem(ast, "[", useNewLine), DecIndentItem>>
     \o visitAllExpressions(ast.entries, ",", useNewLine)
     \o <<IncIndentItem, PrintItem(ast, "]", useNewLine)>>

visitLiteralArrayExpr(ast) ==
  LET useNewLine == Len(ast.entries) > 1
  IN <<PrintItem(ast, "[", useNewLine), IncIndentItem>>
     \o visitAllExpressions(ast.entries, ",", useNewLine)
     \o <<DecIndentItem, PrintItem(ast, "]", useNewLine)>>

visitLiteralMapExpr(ast, this) ==
  LET useNewLine == Len(ast.entries) > 1
      handled == [i \in 1..Len(ast.entries) |->
                    <<PrintItem(ast,
                                escapeIdentifier(ast.entries[i].key, this.escapeDollarInStrings,
                                                 ast.entries[i].quoted) \o ": ",
                                FALSE),
                      ExprItem(ast.entries[i].value)>>]
  IN <<PrintItem(ast, "{", useNewLine), IncIndentItem>>
     \o visitAllObjects(handled, ",", useNewLine)
     \o <<DecIndentItem, PrintItem(ast, "}", useNewLine)>>

\* stmt.visitStatement(this, ctx)
visitStatement(stmt, depth) ==
  CASE stmt.kind = "ExpressionStatement" -> visitExpressionStmt(stmt)
    [] stmt.kind = "ReturnStatement" -> visitReturnStmt(stmt)
    [] stmt.kind = "IfStmt" -> visitIfStmt(stmt, depth)
    [] stmt.kind = "ThrowStmt" -> visitThrowStmt(stmt)
    [] stmt.kind = "CommentStmt" -> visitCommentStmt(stmt)

\* expr.visitExpression(this, ctx)
visitExpressionThrows(expr) ==
  \/ expr.kind = "ReadVarExpr" /\ visitReadVarExprThrows(expr)
  \/ expr.kind = "BinaryOperatorExpr" /\ visitBinaryOperatorExprThrows(expr)

thrownError(expr) ==
  IF expr.kind = "ReadVarExpr"
    THEN "Unknown builtin variable " \o expr.builtin
    ELSE "Unknown operator " \o expr.operator

visitExpression(expr, c, this) ==
  CASE expr.kind = "ReadVarExpr" -> visitReadVarExpr(expr)
    [] expr.kind = "WriteVarExpr" -> visitWriteVarExpr(expr, c)
    [] expr.kind = "WriteKeyExpr" -> visitWriteKeyExpr(expr, c)
    [] expr.kind = "WritePropExpr" -> visitWritePropExpr(expr, c)
    [] expr.kind = "InvokeMethodExpr" -> visitInvokeMethodExpr(expr, this)
    [] expr.kind = "InvokeFunctionExpr" -> visitInvokeFunctionExpr(expr)
    [] expr.kind = "InstantiateExpr" -> visitInstantiateExpr(expr)
    [] expr.kind = "LiteralExpr" -> visitLiteralExpr(expr, this)
    [] expr.kind = "ConditionalExpr" -> visitConditionalExpr(expr)
    [] expr.kind = "NotExpr" -> visitNotExpr(expr)
    [] expr.kind = "BinaryOperatorExpr" -> visitBinaryOperatorExpr(expr)
    [] expr.kind = "ReadPropExpr" -> visitReadPropExpr(expr)
    [] expr.kind = "ReadKeyExpr" -> visitReadKeyExpr(expr)
    [] expr.kind = "LiteralArrayExpr" -> visitLiteralArrayExpr(expr)
    [] expr.kind = "LiteralMapExpr" -> visitLiteralMapExpr(expr, this)

(***************************************************************************)
(* toSource                                                                *)
(***************************************************************************)
RECURSIVE joinParts(_)
joinParts(parts) == IF parts = <<>> THEN "" ELSE Head(parts) \o joinParts(Tail(parts))

\* mutant: a line without fragments gets its indentation too
lineTextIndentAlways(l) == createIndent(l.indent) \o joinParts(l.parts)

lineText(l) == IF Len(l.parts) > 0 THEN createIndent(l.indent) \o joinParts(l.parts) ELSE ""

RECURSIVE joinLines(_)
joinLines(ls) ==
  IF ls = <<>> THEN ""
  ELSE IF Len(ls) = 1 THEN lineText(ls[1])
  ELSE lineText(Head(ls)) \o "\n" \o joinLines(Tail(ls))

toSource(c) == joinLines(sourceLines(c))

(***************************************************************************)
(* Spec: a client calls the methods of one context in any order.           *)
(* map holds the calls of the last toSourceMapGenerator made on the        *)
(* buffer as it now stands (mapFor.valid: it was the last call made), with *)
(* the startsAtLine it was given; error holds the exception thrown by the last call, if any;       *)
(* returned holds the value the last call returned (Undefined for a void   *)
(* method); scopeLog is the record of the pushClass and popClass calls     *)
(* made so far, in order.                                                  *)
(***************************************************************************)
NoMap == [valid |-> FALSE, startsAtLine |-> 0]

\* what a call gave back: the method called and the value returned
Returned(call, value) == [call |-> call, value |-> value]

Init ==
  /\ ctx = createRoot
  /\ callCount = 0
  /\ scopeLog = <<>>
  /\ returned = Returned("void", Undefined)
  /\ map = <<>>
  /\ mapFor = NoMap
  /\ error = ""
  /\ root = <<>>
  /\ visitor = newVisitor(FALSE, {})
  /\ work = <<>>
  /\ netIndent = 0
  /\ firstIndent = <<>>
  /\ adjusted = <<>>
  /\ stmtLog = <<>>
  /\ writeLog = <<>>

\* a call that returns, leaving the context c
Returns(c) ==
  /\ callCount < MaxCalls
  /\ callCount' = callCount + 1
  /\ ctx' = c
  /\ map' = <<>>
  /\ mapFor' = NoMap
  /\ error' = ""
  /\ returned' = Returned("void", Undefined)
  /\ UNCHANGED <<scopeLog, renderVars>>

\* a call that throws e, leaving the context c
Throws(c, e) ==
  /\ callCount < MaxCalls
  /\ callCount' = callCount + 1
  /\ ctx' = c
  /\ map' = <<>>
  /\ mapFor' = NoMap
  /\ error' = e
  /\ returned' = Returned("void", Undefined)
  /\ UNCHANGED <<scopeLog, renderVars>>

PopCall == "pop"

CallPushClass(clazz) ==
  /\ callCount < MaxCalls
  /\ callCount' = callCount + 1
  /\ ctx' = pushClass(ctx, clazz)
  /\ scopeLog' = Append(scopeLog, clazz)
  /\ returned' = Returned("void", Undefined)
  /\ map' = <<>>
  /\ mapFor' = NoMap
  /\ error' = ""
  /\ UNCHANGED renderVars

CallPopClass ==
  /\ callCount < MaxCalls
  /\ callCount' = callCount + 1
  /\ ctx' = popClass(ctx)
  /\ scopeLog' = Append(scopeLog, PopCall)
  /\ returned' = Returned("popClass", popClassResult(ctx))
  /\ map' = <<>>
  /\ mapFor' = NoMap
  /\ error' = ""
  /\ UNCHANGED renderVars

\* toSource() reads the context and is not counted as a call, like
\* toSourceMapGenerator
CallToSource ==
  /\ returned' = Returned("toSource", toSource(ctx))
  /\ map' = <<>>
  /\ mapFor' = NoMap
  /\ error' = ""
  /\ UNCHANGED <<ctx, callCount, scopeLog, renderVars>>

CallPrint(from, part, newLine) ==
  IF printThrows(ctx, part)
    THEN Throws(ctx, "TypeError")
    ELSE Returns(print(ctx, from, part, newLine))

CallPrintln(from, lastPart) ==
  IF printThrows(ctx, lastPart)
    THEN Throws(ctx, "TypeError")
    ELSE Returns(println(ctx, from, lastPart))

CallRemoveEmptyLastLine ==
  IF hasCurrentLine(ctx)
    THEN Returns(removeEmptyLastLine(ctx))
    ELSE Throws(ctx, "TypeError")

CallIncIndent ==
  IF hasCurrentLine(ctx)
    THEN Returns(incIndent(ctx))
    ELSE Throws(incIndent(ctx), "TypeError")

CallDecIndent ==
  IF hasCurrentLine(ctx)
    THEN Returns(decIndent(ctx))
    ELSE Throws(decIndent(ctx), "TypeError")

CallToSourceMapGenerator(startsAtLine) ==
  /\ map' = toSourceMapGenerator(ctx, startsAtLine)
  /\ mapFor' = [valid |-> TRUE, startsAtLine |-> startsAtLine]
  /\ returned' = Returned("toSourceMapGenerator", Undefined)
  /\ error' = ""
  /\ UNCHANGED <<ctx, callCount, scopeLog, renderVars>>

Next ==
  \/ \E from \in Froms, part \in PartTexts, newLine \in BOOLEAN : CallPrint(from, part, newLine)
  \/ \E from \in Froms, lastPart \in PartTexts : CallPrintln(from, lastPart)
  \/ CallRemoveEmptyLastLine
  \/ CallIncIndent
  \/ CallDecIndent
  \/ \E clazz \in Classes : CallPushClass(clazz)
  \/ CallPopClass
  \/ CallToSource
  \/ \E startsAtLine \in 0..MaxStartsAtLine : CallToSourceMapGenerator(startsAtLine)

Spec == Init /\ [][Next]_vars

(***************************************************************************)
(* The trees rendered.                                                     *)
(***************************************************************************)
a == ReadVarExpr("a")
b == ReadVarExpr("b")
one == NumberLiteral(1)

numbers(n) == [i \in 1..n |-> NumberLiteral(i)]
keyOf(i) == IF i % 2 = 1 THEN <<"k", "1">> ELSE <<"$", "v">>
keyed(n) == [i \in 1..n |-> LiteralMapEntry(keyOf(i), NumberLiteral(i), i % 3 = 0)]

Arrays == {LiteralArrayExpr(numbers(n)) : n \in 0..MaxEntries}
Maps == {LiteralMapExpr(keyed(n)) : n \in 0..MaxEntries}
BlockArray == LiteralArrayExpr(numbers(MaxEntries))
BlockMap == LiteralMapExpr(keyed(MaxEntries))

Writes(receiver, value) ==
  {WriteVarExpr("x", value), WritePropExpr(receiver, "x", value), WriteKeyExpr(receiver, one, value)}

FlatExprs ==
  {a, one, StringLiteral(<<"s", "'", "$">>)}
    \cup Writes(ReadVarExpr("obj"), one)
    \cup Arrays \cup Maps
    \cup {BinaryOperatorExpr(op, a, b) : op \in BinaryOperators}
    \cup {BuiltinVarExpr(v) : v \in BuiltinVars}
    \cup {NotExpr(a), ConditionalExpr(a, one, b), ReadPropExpr(a, "p"), ReadKeyExpr(a, one),
          InvokeFunctionExpr(a, <<one, b>>), InvokeFunctionExpr(a, <<>>),
          InvokeMethodExpr(a, "m", NoBuiltin, <<one, b>>),
          InvokeMethodExpr(a, "", "ConcatArray", <<one>>),
          InvokeMethodExpr(a, "", "SubscribeObservable", <<one>>),
          InvokeMethodExpr(a, "", "Bind", <<one, b>>),
          InstantiateExpr(a, <<one>>)}

NestedExprs ==
  {LiteralArrayExpr(<<arr>>) : arr \in Arrays \cup Maps}
    \cup {LiteralMapExpr(<<LiteralMapEntry(keyOf(1), arr, FALSE)>>) : arr \in Arrays \cup Maps}
    \cup {LiteralArrayExpr(<<LiteralArrayExpr(<<BlockArray>>), one>>),
          LiteralMapExpr(<<LiteralMapEntry(keyOf(1), LiteralArrayExpr(<<BlockMap>>), FALSE),
                           LiteralMapEntry(keyOf(2), one, TRUE)>>),
          LiteralArrayExpr(<<BlockArray, BlockMap>>)}
    \cup UNION {{LiteralArrayExpr(<<w, one>>), LiteralArrayExpr(<<w>>), NotExpr(w),
                 ConditionalExpr(w, one, b), InvokeFunctionExpr(a, <<w>>),
                 BinaryOperatorExpr("Plus", a, w)} : w \in Writes(a, one)}
    \cup Writes(a, BlockArray)
    \cup Writes(WriteVarExpr("y", one), WriteVarExpr("z", one))
    \cup {BinaryOperatorExpr("Plus", BinaryOperatorExpr("Minus", a, b),
                             BinaryOperatorExpr("Multiply", a, BinaryOperatorExpr("And", a, b))),
          BinaryOperatorExpr("Or", BlockArray, NotExpr(BinaryOperatorExpr("Lower", a, b))),
          ConditionalExpr(BinaryOperatorExpr("Identical", a, b), one,
                          BinaryOperatorExpr("Modulo", a, b))}

FailingExprs ==
  {BuiltinVarExpr("Metadata"), BinaryOperatorExpr("Power", a, b),
   BinaryOperatorExpr("Plus", a, BinaryOperatorExpr("Power", a, b)),
   LiteralArrayExpr(<<one, BuiltinVarExpr("Metadata")>>)}

Exprs == FlatExprs \cup NestedExprs \cup FailingExprs

PlainStmts ==
  {ExpressionStatement(e) : e \in Exprs}
    \cup {ReturnStatement(e) : e \in Exprs}
    \cup {ThrowStmt(e) : e \in FlatExprs}
    \cup {CommentStmt(<<"c">>), CommentStmt(<<"c", "d">>)}

InnerStmts ==
  {ExpressionStatement(a), ExpressionStatement(WriteVarExpr("x", one)),
   ReturnStatement(BinaryOperatorExpr("Plus", a, b)), CommentStmt(<<"c">>)}

BranchStmts ==
  (InnerStmts \ {ExpressionStatement(a)})
    \cup {ExpressionStatement(LiteralArrayExpr(<<BlockArray>>)),
          IfStmt(b, <<ExpressionStatement(b)>>, <<>>),
          IfStmt(b, <<ExpressionStatement(b)>>, <<ExpressionStatement(a)>>)}

Blocks(stmts) == UNION {[1..n -> stmts] : n \in 0..MaxBlock}

Conditions == {a, BlockArray, LiteralArrayExpr(<<BlockArray>>)}

IfStmts ==
  {IfStmt(cond, trueCase, falseCase) :
     cond \in Conditions, trueCase \in Blocks(BranchStmts),
     falseCase \in {<<>>, <<ExpressionStatement(b)>>,
                    <<ExpressionStatement(LiteralArrayExpr(<<BlockArray>>)), CommentStmt(<<"c">>)>>}}
    \cup {IfStmt(a, <<s>>, <<>>) : s \in PlainStmts}
    \cup {IfStmt(WriteVarExpr("x", one), block, <<>>) : block \in Blocks(InnerStmts)}

Roots ==
  {<<s>> : s \in PlainStmts \cup IfStmts}
    \cup {<<s, t>> : s \in InnerStmts \cup {IfStmt(a, <<ExpressionStatement(b)>>, <<>>)},
                     t \in InnerStmts}

usesStrings(stmts) ==
  \E i \in 1..Len(stmts) :
    /\ stmts[i].kind \in {"ExpressionStatement", "ReturnStatement"}
    /\ (IF stmts[i].kind = "ExpressionStatement" THEN stmts[i].expr ELSE stmts[i].value)
         \in Maps \cup {StringLiteral(<<"s", "'", "$">>)}

usesBuiltinMethods(stmts) ==
  \E i \in 1..Len(stmts) :
    /\ stmts[i].kind \in {"ExpressionStatement", "ReturnStatement"}
    /\ (IF stmts[i].kind = "ExpressionStatement" THEN stmts[i].expr ELSE stmts[i].value).kind
         = "InvokeMethodExpr"

(***************************************************************************)
(* SpecRender: emitting the statements of root with a fresh root context,  *)
(* visitAllStatements(root, ctx).  Beside the program's state the steps    *)
(* keep a record of what happened, for the properties:                     *)
(*   netIndent    incIndent calls minus decIndent calls so far;            *)
(*   firstIndent  per line, netIndent when its first fragment was appended;*)
(*   adjusted     per line, netIndent after the last incIndent/decIndent   *)
(*                made while the line was current and had fragments;       *)
(*   stmtLog      per statement visited, where the buffer stood;           *)
(*   writeLog     per assignment visited, where the buffer stood and       *)
(*                whether an enclosing expression made the visit.          *)
(***************************************************************************)
Unset == [has |-> FALSE, net |-> 0]
SetTo(n) == [has |-> TRUE, net |-> n]

InitRender ==
  /\ root \in Roots
  /\ visitor \in {newVisitor(e, u) :
                    e \in (IF usesStrings(root) THEN BOOLEAN ELSE {FALSE}),
                    u \in (IF usesBuiltinMethods(root) THEN {{}, {"Bind"}} ELSE {{}})}
  /\ ctx = createRoot
  /\ callCount = 0
  /\ scopeLog = <<>>
  /\ returned = Returned("void", Undefined)
  /\ map = <<>>
  /\ mapFor = NoMap
  /\ error = ""
  /\ work = visitAllStatements(root, 0)
  /\ netIndent = 0
  /\ firstIndent = <<Unset>>
  /\ adjusted = <<Unset>>
  /\ stmtLog = <<>>
  /\ writeLog = <<>>

top == Head(work)

\* the record of the lines, after a step that leaves the context c2 at net indent net2
firstIndentAfter(c2, net2) ==
  [i \in 1..Len(c2.lines) |->
     IF i <= Len(firstIndent) /\ firstIndent[i].has THEN firstIndent[i]
     ELSE IF Len(c2.lines[i].parts) > 0 THEN SetTo(net2)
     ELSE Unset]

adjustedAfter(c2, net2, isAdjustment) ==
  [i \in 1..Len(c2.lines) |->
     IF isAdjustment /\ i = Len(c2.lines) /\ Len(c2.lines[i].parts) > 0 THEN SetTo(net2)
     ELSE IF i <= Len(adjusted) THEN adjusted[i]
     ELSE Unset]

\* a context call that returns, leaving the context c2
Rendered(c2, net2, isAdjustment) ==
  /\ ctx' = c2
  /\ work' = Tail(work)
  /\ netIndent' = net2
  /\ firstIndent' = firstIndentAfter(c2, net2)
  /\ adjusted' = adjustedAfter(c2, net2, isAdjustment)
  /\ UNCHANGED <<callCount, scopeLog, returned, map, mapFor, error, root, visitor, stmtLog, writeLog>>

\* mutant: the opening fragment of the node is appended before the exception
AbortedAfterOpening(c2, e) ==
  /\ ctx' = print(c2, NullFrom, "(", FALSE)
  /\ work' = <<>>
  /\ error' = e
  /\ UNCHANGED <<callCount, scopeLog, returned, map, mapFor, root, visitor, netIndent,
                 firstIndent, adjusted, stmtLog, writeLog>>

\* an exception unwinds the whole recursion
Aborted(c2, e) ==
  /\ ctx' = c2
  /\ work' = <<>>
  /\ error' = e
  /\ UNCHANGED <<callCount, scopeLog, returned, map, mapFor, root, visitor, netIndent, firstIndent,
                 adjusted, stmtLog, writeLog>>

WriteKinds == {"WriteVarExpr", "WriteKeyExpr", "WritePropExpr"}

position(c) == [line |-> Len(c.lines), at |-> Len(currentLine(c).parts)]

VisitStatement ==
  /\ work # <<>>
  /\ top.k = "stmt"
  /\ work' = visitStatement(top.node, top.depth) \o Tail(work)
  /\ stmtLog' = Append(stmtLog, [kind |-> top.node.kind, depth |-> top.depth,
                                 line |-> position(ctx).line, at |-> position(ctx).at,
                                 net |-> netIndent])
  /\ UNCHANGED <<ctx, callCount, scopeLog, returned, map, mapFor, error, root, visitor, netIndent,
                 firstIndent, adjusted, writeLog>>

VisitExpression ==
  /\ work # <<>>
  /\ top.k = "expr"
  /\ ~visitExpressionThrows(top.node)
  /\ work' = visitExpression(top.node, ctx, visitor) \o Tail(work)
  /\ writeLog' = IF top.node.kind \in WriteKinds
                   THEN Append(writeLog, [line |-> position(ctx).line,
                                          at |-> position(ctx).at,
                                          sub |-> top.depth > 0])
                   ELSE writeLog
  /\ UNCHANGED <<ctx, callCount, scopeLog, returned, map, mapFor, error, root, visitor, netIndent,
                 firstIndent, adjusted, stmtLog>>

VisitExpressionThrows ==
  /\ work # <<>>
  /\ top.k = "expr"
  /\ visitExpressionThrows(top.node)
  /\ Aborted(ctx, thrownError(top.node))

RenderPrint ==
  /\ work # <<>>
  /\ top.k = "print"
  /\ IF printThrows(ctx, top.part)
       THEN Aborted(ctx, "TypeError")
       ELSE Rendered(print(ctx, top.from, top.part, top.newLine), netIndent, FALSE)

RenderIncIndent ==
  /\ work # <<>>
  /\ top.k = "incIndent"
  /\ IF hasCurrentLine(ctx)
       THEN Rendered(incIndent(ctx), netIndent + 1, TRUE)
       ELSE Aborted(incIndent(ctx), "TypeError")

RenderDecIndent ==
  /\ work # <<>>
  /\ top.k = "decIndent"
  /\ IF hasCurrentLine(ctx)
       THEN Rendered(decIndent(ctx), netIndent - 1, TRUE)
       ELSE Aborted(decIndent(ctx), "TypeError")

RenderRemoveEmptyLastLine ==
  /\ work # <<>>
  /\ top.k = "removeEmptyLastLine"
  /\ IF hasCurrentLine(ctx)
       THEN Rendered(removeEmptyLastLine(ctx), netIndent, FALSE)
       ELSE Aborted(ctx, "TypeError")

NextRender ==
  \/ VisitStatement
  \/ VisitExpression
  \/ VisitExpressionThrows
  \/ RenderPrint
  \/ RenderIncIndent
  \/ RenderDecIndent
  \/ RenderRemoveEmptyLastLine

SpecRender == InitRender /\ [][NextRender]_vars

rendered == work = <<>> /\ error = "" /\ root # <<>>

(***************************************************************************)
(* Reading the calls of a position map.                                    *)
(***************************************************************************)
isOp(call, op) == call.op = op

countOp(calls, op) == Cardinality({i \in 1..Len(calls) : calls[i].op = op})

\* positions of the addLine calls, in order
RECURSIVE addLinePositions(_, _)
addLinePositions(calls, i) ==
  IF i > Len(calls) THEN <<>>
  ELSE IF calls[i].op = "addLine" THEN <<i>> \o addLinePositions(calls, i + 1)
  ELSE addLinePositions(calls, i + 1)

\* the calls issued after the k-th addLine and before the next one
callsOfLine(calls, k) ==
  LET pos == addLinePositions(calls, 1)
      first == pos[k] + 1
      last == IF k < Len(pos) THEN pos[k + 1] - 1 ELSE Len(calls)
  IN SubSeq(calls, first, last)

isAddMapping(call) == call.op = "addMapping"

mappingsOfLine(calls, k) == SelectSeq(callsOfLine(calls, k), isAddMapping)

\* the lines finalize-to-text keeps: all but one trailing line without fragments
keptLineCount(c) ==
  IF Len(c.lines) > 0 /\ c.lines[Len(c.lines)].parts = <<>>
    THEN Len(c.lines) - 1
    ELSE Len(c.lines)

\* generated column at which fragment i of a line starts
RECURSIVE widthBefore(_, _)
widthBefore(parts, i) ==
  IF i <= 1 THEN 0 ELSE widthBefore(parts, i - 1) + Len(parts[i - 1])

columnOf(line, i) == line.indent * 2 + widthBefore(line.parts, i)

\* first fragments of the maximal runs of consecutive fragments with the same span
runStarts(line) ==
  {i \in 1..Len(line.srcSpans) :
     /\ line.srcSpans[i] # NoSpan
     /\ (i = 1 \/ line.srcSpans[i - 1] # line.srcSpans[i])}

\* the same, when fragments without a span are looked through: a fragment
\* starts a run when the nearest fragment with a span before it has another span
runStartsSkippingSpanless(line) ==
  {i \in 1..Len(line.srcSpans) :
     /\ line.srcSpans[i] # NoSpan
     /\ \A j \in 1..(i - 1) :
          (line.srcSpans[j] # NoSpan /\ \A h \in (j + 1)..(i - 1) : line.srcSpans[h] = NoSpan)
            => line.srcSpans[j] # line.srcSpans[i]}

RECURSIVE entriesFor(_, _, _)
entriesFor(line, starts, i) ==
  IF i > Len(line.srcSpans) THEN <<>>
  ELSE IF i \in starts
    THEN <<AddMapping(columnOf(line, i), spanStart(line.srcSpans[i]).file.url,
                      spanStart(line.srcSpans[i]).line, spanStart(line.srcSpans[i]).col)>>
         \o entriesFor(line, starts, i + 1)
  ELSE entriesFor(line, starts, i + 1)

mapIsOfBuffer == mapFor.valid /\ countOp(map, "addLine") = mapFor.startsAtLine + keptLineCount(ctx)

(***************************************************************************)
(* C1 as stated: for every finalized line, exactly one addMapping per      *)
(* maximal run of consecutive fragments carrying the same span object, at  *)
(* the generated column where the run's first fragment starts and with the *)
(* original line/column of the span's start.  It fails: a fragment without *)
(* a span between two fragments of one span does not end the run.          *)
(***************************************************************************)
C1_OneEntryPerRunOfConsecutiveFragments ==
  mapIsOfBuffer =>
    \A k \in 1..keptLineCount(ctx) :
      mappingsOfLine(map, mapFor.startsAtLine + k)
        = entriesFor(ctx.lines[k], runStarts(ctx.lines[k]), 1)

(***************************************************************************)
(* C1 amended: for every finalized line, exactly one addMapping per        *)
(* maximal run of fragments that carry the same span object or no span     *)
(* (a run starts at a fragment with a span; fragments without a span that  *)
(* follow it are absorbed and do not end the run), at the generated column *)
(* where the run's first fragment starts and with the original line/column *)
(* of the span's start; runs are computed per line.                        *)
(***************************************************************************)
C1_OneEntryPerRun ==
  mapIsOfBuffer =>
    \A k \in 1..keptLineCount(ctx) :
      mappingsOfLine(map, mapFor.startsAtLine + k)
        = entriesFor(ctx.lines[k], runStartsSkippingSpanless(ctx.lines[k]), 1)

\* two adjacent fragments of one span on a line, and the same span again on the next line
C1_Witness ==
  /\ mapFor.valid
  /\ Len(ctx.lines) >= 2
  /\ ctx.lines[1].srcSpans = <<1, 1>>
  /\ ctx.lines[2].srcSpans = <<1>>
  /\ Len(mappingsOfLine(map, mapFor.startsAtLine + 1)) = 1
  /\ Len(mappingsOfLine(map, mapFor.startsAtLine + 2)) = 1

(***************************************************************************)
(* C2: the calls are ordered by generated line and, between two            *)
(* consecutive addLine calls, consecutive addMapping calls have strictly   *)
(* increasing generated columns.                                           *)
(***************************************************************************)
C2_ColumnsStrictlyIncrease ==
  mapFor.valid =>
    \A k \in 1..countOp(map, "addLine") :
      LET ms == mappingsOfLine(map, k)
      IN \A j \in 1..(Len(ms) - 1) : ms[j].col < ms[j + 1].col

C2_Witness ==
  /\ mapFor.valid
  /\ \E k \in 1..countOp(map, "addLine") : Len(mappingsOfLine(map, k)) >= 2

(***************************************************************************)
(* C3: addLine is called once per generated line - startsAtLine times      *)
(* first, then once for every line finalize-to-text keeps, empty interior  *)
(* lines and lines without mappings included - and the addMapping calls of *)
(* a line lie between its addLine and the next: no call precedes the first *)
(* addLine, the startsAtLine leading lines have no mapping, and the k-th   *)
(* kept line has mappings only if it has a fragment with a span.           *)
(***************************************************************************)
C3_AddLineOncePerLine ==
  mapFor.valid =>
    /\ countOp(map, "addLine") = mapFor.startsAtLine + keptLineCount(ctx)
    /\ (map # <<>> => map[1].op = "addLine")
    /\ \A k \in 1..mapFor.startsAtLine : callsOfLine(map, k) = <<>>
    /\ \A k \in 1..keptLineCount(ctx) :
         Len(mappingsOfLine(map, mapFor.startsAtLine + k)) > 0
           <=> \E i \in 1..Len(ctx.lines[k].srcSpans) : ctx.lines[k].srcSpans[i] # NoSpan

\* an empty interior line, a line without a span, and a prefix of leading lines
C3_Witness ==
  /\ mapFor.valid
  /\ mapFor.startsAtLine = 1
  /\ Len(ctx.lines) = 3
  /\ ctx.lines[1].srcSpans = <<NoSpan>>
  /\ ctx.lines[2].parts = <<>>
  /\ ctx.lines[3].srcSpans = <<1>>
  /\ countOp(map, "addLine") = 4

(***************************************************************************)
(* C4 as stated: the number of addSource calls equals the number of        *)
(* distinct source files referenced by the spans that produce mapping      *)
(* entries.  It fails: addSource is called for every mapping entry.        *)
(***************************************************************************)
mappedUrls == {map[i].url : i \in {j \in 1..Len(map) : map[j].op = "addMapping"}}

C4_AddSourceOncePerFile ==
  mapFor.valid => countOp(map, "addSource") = Cardinality(mappedUrls)

(***************************************************************************)
(* C4 amended: addSource(url, content) is called once per mapping entry,   *)
(* immediately before that entry's addMapping and with the url and content *)
(* of the file of the entry's span; so the urls passed to addSource are    *)
(* exactly the files the mapping entries refer to, and several entries     *)
(* into one file cause as many addSource calls for it.                     *)
(***************************************************************************)
fileOfUrl(url) == IF url = File1.url THEN File1 ELSE File2

C4_AddSourceOncePerMapping ==
  mapFor.valid =>
    /\ countOp(map, "addSource") = countOp(map, "addMapping")
    /\ \A i \in 1..Len(map) :
         /\ map[i].op = "addMapping" =>
              /\ i > 1
              /\ map[i - 1] = AddSource(map[i].url, fileOfUrl(map[i].url).content)
         /\ map[i].op = "addSource" => (i < Len(map) /\ map[i + 1].op = "addMapping")
    /\ {map[i].url : i \in {j \in 1..Len(map) : map[j].op = "addSource"}} = mappedUrls

\* two mapping entries into the same file, one into another
C4_Witness ==
  /\ mapFor.valid
  /\ countOp(map, "addMapping") = 3
  /\ Cardinality(mappedUrls) = 2

(***************************************************************************)
(* Reading a tree: what its shape says about its rendering.                *)
(***************************************************************************)
LiteralKinds == {"LiteralArrayExpr", "LiteralMapExpr"}

exprChildren(e) ==
  CASE e.kind \in {"WriteVarExpr"} -> <<e.value>>
    [] e.kind = "WriteKeyExpr" -> <<e.receiver, e.index, e.value>>
    [] e.kind = "WritePropExpr" -> <<e.receiver, e.value>>
    [] e.kind = "InvokeMethodExpr" -> <<e.receiver>> \o e.args
    [] e.kind = "InvokeFunctionExpr" -> <<e.fn>> \o e.args
    [] e.kind = "InstantiateExpr" -> <<e.classExpr>> \o e.args
    [] e.kind = "ConditionalExpr" -> <<e.condition, e.trueCase, e.falseCase>>
    [] e.kind = "NotExpr" -> <<e.condition>>
    [] e.kind = "BinaryOperatorExpr" -> <<e.lhs, e.rhs>>
    [] e.kind = "ReadPropExpr" -> <<e.receiver>>
    [] e.kind = "ReadKeyExpr" -> <<e.receiver, e.index>>
    [] e.kind = "LiteralArrayExpr" -> e.entries
    [] e.kind = "LiteralMapExpr" -> [i \in 1..Len(e.entries) |-> e.entries[i].value]
    [] OTHER -> <<>>

isBlockLiteral(e) == e.kind \in LiteralKinds /\ Len(e.entries) > 1
isInlineLiteral(e) == e.kind \in LiteralKinds /\ Len(e.entries) <= 1

\* the rendering of the expression starts a new line somewhere
RECURSIVE breaksLine(_)
breaksLine(e) ==
  \/ isBlockLiteral(e)
  \/ \E i \in 1..Len(exprChildren(e)) : breaksLine(exprChildren(e)[i])

\* no literal with at most one entry encloses a line break
RECURSIVE retroFree(_)
retroFree(e) ==
  /\ isInlineLiteral(e) => ~breaksLine(e)
  /\ \A i \in 1..Len(exprChildren(e)) : retroFree(exprChildren(e)[i])

\* the number of lines the rendering of the expression starts
RECURSIVE newLinesOfAll(_)
RECURSIVE newLinesOf(_)
newLinesOf(e) ==
  (IF isBlockLiteral(e) THEN Len(e.entries) + 2 ELSE 0) + newLinesOfAll(exprChildren(e))
newLinesOfAll(es) ==
  IF es = <<>> THEN 0 ELSE newLinesOf(Head(es)) + newLinesOfAll(Tail(es))

\* the number of nodes of a kind in an expression
RECURSIVE countKindAll(_, _)
RECURSIVE countKind(_, _)
countKind(e, kinds) == (IF e.kind \in kinds THEN 1 ELSE 0) + countKindAll(exprChildren(e), kinds)
countKindAll(es, kinds) ==
  IF es = <<>> THEN 0 ELSE countKind(Head(es), kinds) + countKindAll(Tail(es), kinds)

stmtExprs(stmt) ==
  CASE stmt.kind = "ExpressionStatement" -> <<stmt.expr>>
    [] stmt.kind = "ReturnStatement" -> <<stmt.value>>
    [] stmt.kind = "ThrowStmt" -> <<stmt.error>>
    [] stmt.kind = "IfStmt" -> <<stmt.condition>>
    [] OTHER -> <<>>

stmtChildren(stmt) == IF stmt.kind = "IfStmt" THEN stmt.trueCase \o stmt.falseCase ELSE <<>>

RECURSIVE stmtCountKind(_, _)
RECURSIVE stmtsCountKind(_, _)
stmtCountKind(stmt, kinds) ==
  countKindAll(stmtExprs(stmt), kinds) + stmtsCountKind(stmtChildren(stmt), kinds)
stmtsCountKind(stmts, kinds) ==
  IF stmts = <<>> THEN 0
  ELSE stmtCountKind(Head(stmts), kinds) + stmtsCountKind(Tail(stmts), kinds)

isInlineIf(stmt) ==
  stmt.kind = "IfStmt" /\ Len(stmt.trueCase) <= 1 /\ Len(stmt.falseCase) = 0
isBlockIf(stmt) ==
  stmt.kind = "IfStmt" /\ (Len(stmt.trueCase) >= 2 \/ Len(stmt.falseCase) > 0)

\* the rendering of the statement is one line of text
RECURSIVE rendersOnOneLine(_)
rendersOnOneLine(stmt) ==
  /\ \A i \in 1..Len(stmtExprs(stmt)) : ~breaksLine(stmtExprs(stmt)[i])
  /\ stmt.kind = "CommentStmt" => Len(stmt.comment) = 1
  /\ stmt.kind = "IfStmt" =>
       /\ isInlineIf(stmt)
       /\ \A i \in 1..Len(stmt.trueCase) : rendersOnOneLine(stmt.trueCase[i])

RECURSIVE stmtRetroFree(_)
stmtRetroFree(stmt) ==
  /\ \A i \in 1..Len(stmtExprs(stmt)) : retroFree(stmtExprs(stmt)[i])
  /\ \A i \in 1..Len(stmtChildren(stmt)) : stmtRetroFree(stmtChildren(stmt)[i])

lastPart(l) == l.parts[Len(l.parts)]
lastKeptLine(c) == c.lines[keptLineCount(c)]

(***************************************************************************)
(* C5 as stated: in every state reached while rendering, the recorded      *)
(* indent of every line that has a fragment equals the net indent          *)
(* adjustments (incIndent calls minus decIndent calls, plus the initial 0) *)
(* in effect when its first fragment was appended.  It fails: incIndent    *)
(* and decIndent also re-indent the line in progress.                      *)
(***************************************************************************)
C5_IndentIsNetAtFirstFragment ==
  \A i \in 1..Len(ctx.lines) :
    firstIndent[i].has => ctx.lines[i].indent = firstIndent[i].net

(***************************************************************************)
(* C5 amended: in every state reached while rendering, the recorded indent *)
(* of every line that has a fragment equals the net indent adjustments in  *)
(* effect when its first fragment was appended, unless incIndent or        *)
(* decIndent was called afterwards while the line was still the current    *)
(* line: then it equals the net indent adjustments after the last such     *)
(* call.                                                                   *)
(***************************************************************************)
C5_IndentIsNetAtFirstFragmentOrAdjustment ==
  /\ Len(firstIndent) = Len(ctx.lines)
  /\ Len(adjusted) = Len(ctx.lines)
  /\ \A i \in 1..Len(ctx.lines) :
       firstIndent[i].has =>
         ctx.lines[i].indent = IF adjusted[i].has THEN adjusted[i].net ELSE firstIndent[i].net

\* a rendering with a line indented in a block and a line left re-indented
C5_Witness ==
  /\ rendered
  /\ \E i \in 1..Len(ctx.lines) :
       firstIndent[i].has /\ ~adjusted[i].has /\ ctx.lines[i].indent = 2
  /\ \E i \in 1..Len(ctx.lines) :
       firstIndent[i].has /\ adjusted[i].has /\ ctx.lines[i].indent # firstIndent[i].net

(***************************************************************************)
(* C6 as stated: an if statement with exactly one true-branch statement    *)
(* and no false branch occupies exactly one emitted line, for every        *)
(* condition and every statement.  It fails when the condition or the      *)
(* statement itself renders on several lines.                              *)
(***************************************************************************)
rootIsSingleStatementIf ==
  /\ Len(root) = 1
  /\ root[1].kind = "IfStmt"
  /\ Len(root[1].trueCase) = 1
  /\ Len(root[1].falseCase) = 0

C6_SingleStatementIfIsOneLine ==
  (rendered /\ rootIsSingleStatementIf) => keptLineCount(ctx) = 1

(***************************************************************************)
(* C6 amended: an if statement with exactly one true-branch statement and  *)
(* no false branch renders as `if (cond) { stmt }`: the statement's        *)
(* trailing empty line is removed, so that ` }` closes on the last line of *)
(* the statement; the whole occupies exactly one emitted line if and only  *)
(* if the condition and the statement each render on one line (no literal  *)
(* array/map with more than one entry, no comment of several lines, no     *)
(* nested if in block form).                                               *)
(***************************************************************************)
C6_SingleStatementIfIsInline ==
  (rendered /\ rootIsSingleStatementIf) =>
    LET l == lastKeptLine(ctx)
        n == Len(l.parts)
    IN /\ ctx.lines[1].parts[1] = "if ("
       /\ n >= 3
       /\ l.parts[n] = "}"
       /\ l.parts[n - 1] = " "
       /\ l.parts[n - 2] \in {";", "}", "// c", "// d"}
       /\ Len(ctx.lines) = keptLineCount(ctx) + 1
       /\ keptLineCount(ctx) = 1 <=> rendersOnOneLine(root[1])
       /\ root = <<IfStmt(a, <<ExpressionStatement(b)>>, <<>>)>> => toSource(ctx) = "if (a) { b; }"

C6_Witness ==
  /\ rendered
  /\ root = <<IfStmt(a, <<ReturnStatement(BinaryOperatorExpr("Plus", a, b))>>, <<>>)>>
  /\ toSource(ctx) = "if (a) { return (a + b); }"

(***************************************************************************)
(* C7 as stated: an if statement with two or more true-branch statements   *)
(* or a false branch renders as a block: the condition line ends in `{`,   *)
(* every true-branch statement starts on its own line exactly one indent   *)
(* level deeper than the `if` line, `} else {` (when there is a false      *)
(* branch, whose statements are one level deeper too) and the closing `}`  *)
(* are each alone on a line at the indent of the `if` line.  It fails when *)
(* the first line of the condition or of a branch statement is left        *)
(* re-indented by a literal with at most one entry that encloses a line    *)
(* break.                                                                  *)
(***************************************************************************)
rootIsBlockIf == Len(root) = 1 /\ isBlockIf(root[1])

\* the statements of the branches of the root if statement, as they were visited
branchLog == SelectSeq(stmtLog, LAMBDA v : v.depth = 1)

\* the first line that holds the fragment `) {`
conditionLine ==
  CHOOSE i \in 1..Len(ctx.lines) :
    /\ \E j \in 1..Len(ctx.lines[i].parts) : ctx.lines[i].parts[j] = ") {"
    /\ \A h \in 1..(i - 1) : \A j \in 1..Len(ctx.lines[h].parts) : ctx.lines[h].parts[j] # ") {"

blockIfShape ==
  LET stmt == root[1]
      ifIndent == ctx.lines[1].indent
      nTrue == Len(stmt.trueCase)
      nFalse == Len(stmt.falseCase)
      closing == lastKeptLine(ctx)
  IN /\ ctx.lines[1].parts[1] = "if ("
     /\ lastPart(ctx.lines[conditionLine]) = ") {"
     /\ Len(branchLog) = nTrue + nFalse
     /\ \A i \in 1..Len(branchLog) :
          /\ branchLog[i].at = 0
          /\ branchLog[i].line > conditionLine
          /\ ctx.lines[branchLog[i].line].indent = ifIndent + 1
     /\ nFalse > 0 =>
          LET elseLine == ctx.lines[branchLog[nTrue + 1].line - 1]
          IN elseLine.parts = <<"} else {">> /\ elseLine.indent = ifIndent
     /\ closing.parts = <<"}">>
     /\ closing.indent = ifIndent
     /\ keptLineCount(ctx) > branchLog[Len(branchLog)].line

C7_BlockIfShape == (rendered /\ rootIsBlockIf) => blockIfShape

(***************************************************************************)
(* C7 amended: an if statement that starts on a fresh line, has two or     *)
(* more true-branch statements or a false branch, and in whose condition   *)
(* and branches no literal array/map with at most one entry encloses one   *)
(* with more than one entry, renders as a block: the condition line ends   *)
(* in `{`, every true-branch statement starts on its own line exactly one  *)
(* indent level deeper than the `if` line, `} else {` (when there is a     *)
(* false branch, whose statements are one level deeper too) and the        *)
(* closing `}` are each alone on a line at the indent of the `if` line.    *)
(***************************************************************************)
C7_BlockIfShapeWithoutReindent ==
  (rendered /\ rootIsBlockIf /\ stmtRetroFree(root[1])) => blockIfShape

\* a block with a nested block in its true branch, and a false branch
C7_Witness ==
  /\ rendered
  /\ rootIsBlockIf
  /\ stmtRetroFree(root[1])
  /\ Len(root[1].trueCase) = 2
  /\ Len(root[1].falseCase) = 1
  /\ isBlockIf(root[1].trueCase[1])
  /\ breaksLine(root[1].condition)

(***************************************************************************)
(* C8: a write-variable, write-key or write-property expression is wrapped *)
(* in parentheses if and only if the current line has a fragment when the  *)
(* assignment begins; the closing `)` is emitted exactly when the opening  *)
(* `(` was, also when a new line starts in between.  `obj.x = 1` renders   *)
(* `obj.x = 1;` as a statement on an empty line and `(obj.x = 1)` on a     *)
(* line that has a fragment.                                               *)
(***************************************************************************)
Fragment(text, span) == [text |-> text, span |-> span]

RECURSIVE fragmentsOf(_)
fragmentsOf(ls) ==
  IF ls = <<>> THEN <<>>
  ELSE [j \in 1..Len(Head(ls).parts) |-> Fragment(Head(ls).parts[j], Head(ls).srcSpans[j])]
       \o fragmentsOf(Tail(ls))

\* the number of fragments among the first n that are f
countFragment(fs, f, n) == Cardinality({j \in 1..n : fs[j] = f})

\* among the fragments, the `(` and `)` of the nodes with this span are balanced so far
parensNested(fs, span) ==
  \A n \in 0..Len(fs) :
    countFragment(fs, Fragment("(", span), n) >= countFragment(fs, Fragment(")", span), n)

parensClosed(fs, span, count) ==
  /\ countFragment(fs, Fragment("(", span), Len(fs)) = count
  /\ countFragment(fs, Fragment(")", span), Len(fs)) = count

objX == WritePropExpr(ReadVarExpr("obj"), "x", one)

C8_AssignmentParenthesizedIffLineNotEmpty ==
  LET fs == fragmentsOf(ctx.lines)
      wrapped == SelectSeq(writeLog, LAMBDA w : w.at > 0)
  IN /\ \A i \in 1..Len(writeLog) :
          LET w == writeLog[i]
              l == ctx.lines[w.line]
          IN (w.line <= Len(ctx.lines) /\ Len(ctx.lines[w.line].parts) > w.at) =>
               (w.at > 0 <=> Fragment(l.parts[w.at + 1], l.srcSpans[w.at + 1])
                               = Fragment("(", WriteSpan))
     /\ parensNested(fs, WriteSpan)
     /\ rendered => parensClosed(fs, WriteSpan, Len(wrapped))
     /\ (rendered /\ root = <<ExpressionStatement(objX)>>) => toSource(ctx) = "obj.x = 1;"
     /\ (rendered /\ root = <<ReturnStatement(objX)>>) => toSource(ctx) = "return (obj.x = 1);"

\* an assignment in parentheses whose value starts new lines
C8_Witness ==
  /\ rendered
  /\ root = <<ReturnStatement(WriteVarExpr("x", BlockArray))>>
  /\ Len(writeLog) = 1
  /\ writeLog[1].at = 1
  /\ ctx.lines[1].parts[2] = "("
  /\ lastKeptLine(ctx).parts = <<")", ";">>
  /\ keptLineCount(ctx) > 2

(***************************************************************************)
(* C9 as stated: a literal array or map with more than one entry renders   *)
(* as a block: the opening bracket ends its line, each entry starts on its *)
(* own line exactly one indent level deeper, `,` follows every entry but   *)
(* the last, and the closing bracket is alone on its line at the original  *)
(* indent; with at most one entry the literal itself starts no line; the   *)
(* indent counter after the literal equals the counter before it.  The     *)
(* literal is the expression of a statement at indent 0.  It fails for an  *)
(* entry whose first line is left re-indented by a literal with at most    *)
(* one entry that encloses a line break.                                   *)
(***************************************************************************)
rootIsLiteral ==
  /\ Len(root) = 1
  /\ root[1].kind = "ExpressionStatement"
  /\ root[1].expr.kind \in LiteralKinds

opening(e) == IF e.kind = "LiteralArrayExpr" THEN "[" ELSE "{"
closing(e) == IF e.kind = "LiteralArrayExpr" THEN "]" ELSE "}"

\* the line on which entry i of the block literal of the root statement starts
RECURSIVE entryLine(_, _)
entryLine(e, i) ==
  IF i = 1 THEN 2 ELSE entryLine(e, i - 1) + newLinesOf(exprChildren(e)[i - 1]) + 1

literalShape ==
  LET e == root[1].expr
      n == Len(e.entries)
      lastLine == entryLine(e, n + 1)
  IN /\ ctx.indent = 0
     /\ n > 1 =>
          /\ ctx.lines[1].parts = <<opening(e)>>
          /\ ctx.lines[1].indent = 0
          /\ \A i \in 1..n :
               /\ ctx.lines[entryLine(e, i)].indent = 1
               /\ LET ends == ctx.lines[entryLine(e, i + 1) - 1]
                  IN i < n <=> /\ Len(ends.parts) > 0
                               /\ lastPart(ends) = ","
                               /\ ends.srcSpans[Len(ends.parts)] = NoSpan
          /\ ctx.lines[lastLine].parts = <<closing(e)>>
          /\ ctx.lines[lastLine].indent = 0
          /\ ctx.lines[lastLine + 1].parts = <<";">>
          /\ keptLineCount(ctx) = lastLine + 1
     /\ n <= 1 =>
          /\ keptLineCount(ctx) = 1 + newLinesOfAll(exprChildren(e))
          /\ ctx.lines[1].parts[1] = opening(e)
          /\ lastKeptLine(ctx).parts[Len(lastKeptLine(ctx).parts) - 1] = closing(e)
     /\ e = LiteralArrayExpr(numbers(1)) => toSource(ctx) = "[1];"
     /\ e = LiteralArrayExpr(numbers(2)) =>
          [i \in 1..4 |-> lineText(ctx.lines[i])] = <<"[", "  1,", "  2", "]">>

C9_LiteralShape == (rendered /\ rootIsLiteral) => literalShape

(***************************************************************************)
(* C9 amended: the same, for a literal array or map none of whose entries  *)
(* holds a literal with at most one entry that encloses one with more than *)
(* one entry: with more than one entry it renders as a block (the opening  *)
(* bracket ends its line, each entry starts on its own line exactly one    *)
(* indent level deeper, `,` follows every entry but the last, the closing  *)
(* bracket is alone on its line at the original indent; entries 1,2 give   *)
(* the lines `[`, `  1,`, `  2`, `]`); with at most one entry the literal  *)
(* itself starts no line (`[1]`); the indent counter after the literal     *)
(* equals the counter before it.                                           *)
(***************************************************************************)
C9_LiteralShapeWithoutReindent ==
  (rendered /\ rootIsLiteral /\ \A i \in 1..Len(root[1].expr.entries) :
                                   retroFree(exprChildren(root[1].expr)[i]))
    => literalShape

\* a block literal with a block literal among its entries
C9_Witness ==
  /\ rendered
  /\ root = <<ExpressionStatement(LiteralArrayExpr(<<BlockArray, BlockMap>>))>>
  /\ ctx.lines[2].parts = <<"[">>
  /\ ctx.lines[2].indent = 1
  /\ ctx.lines[3].indent = 2

(***************************************************************************)
(* C10: every binary-operator expression with one of the 15 operators of   *)
(* the table renders as `(` lhs ` op ` rhs `)` at every nesting depth, so  *)
(* the parentheses of the binary expressions are balanced and nested in    *)
(* every state and closed at the end, one pair and one operator per        *)
(* expression; the table is one to one; return of plus(a, b) renders       *)
(* `return (a + b);`.                                                      *)
(***************************************************************************)
operatorFragments(fs) ==
  Cardinality({j \in 1..Len(fs) :
                 \E op \in BinaryOperators : fs[j] = Fragment(" " \o opStr(op) \o " ", BinarySpan)})

C10_BinaryFullyParenthesized ==
  LET fs == fragmentsOf(ctx.lines)
      binaries == stmtsCountKind(root, {"BinaryOperatorExpr"})
  IN /\ parensNested(fs, BinarySpan)
     /\ Cardinality(BinaryOperators) = 15
     /\ \A op1, op2 \in BinaryOperators : opStr(op1) = opStr(op2) => op1 = op2
     /\ rendered =>
          /\ parensClosed(fs, BinarySpan, binaries)
          /\ operatorFragments(fs) = binaries
          /\ \A op \in BinaryOperators :
               root = <<ExpressionStatement(BinaryOperatorExpr(op, a, b))>> =>
                 ctx.lines[1].parts = <<"(", "a", " " \o opStr(op) \o " ", "b", ")", ";">>
          /\ root = <<ReturnStatement(BinaryOperatorExpr("Plus", a, b))>> =>
               toSource(ctx) = "return (a + b);"
          /\ root = <<ReturnStatement(
                        BinaryOperatorExpr("Plus", BinaryOperatorExpr("Minus", a, b),
                          BinaryOperatorExpr("Multiply", a, BinaryOperatorExpr("And", a, b))))>> =>
               toSource(ctx) = "return ((a - b) + (a * (a && b)));"

C10_Witness ==
  /\ rendered
  /\ stmtsCountKind(root, {"BinaryOperatorExpr"}) = 4
  /\ toSource(ctx) = "return ((a - b) + (a * (a && b)));"

(***************************************************************************)
(* C11  Visiting a read-variable node whose builtin tag is none of the     *)
(* four recognised ones, or a binary-operator node whose operator tag is   *)
(* none of the fifteen recognised ones, throws an error naming the tag     *)
(* and leaves the context (lines, indent, scope stack) as it was when the  *)
(* visit of that node began: nothing of the node or of its operands is     *)
(* appended, and nothing is rendered after the failure.  The visit of any  *)
(* other node, and every context call made while rendering, raises no      *)
(* error.                                                                  *)
(***************************************************************************)
unrecognizedTag(node) ==
  \/ node.kind = "ReadVarExpr" /\ node.builtin \notin BuiltinVars \cup {NoBuiltin}
  \/ node.kind = "BinaryOperatorExpr" /\ node.operator \notin BinaryOperators

tagOf(node) == IF node.kind = "ReadVarExpr" THEN node.builtin ELSE node.operator

namesTag(e, tag) ==
  \E prefix \in {"Unknown builtin variable ", "Unknown operator "} : e = prefix \o tag

C11_UnrecognizedTagAbortsBeforeOutput ==
  /\ [](error # "" => work = <<>>)
  /\ [][IF work # <<>> /\ top.k = "expr" /\ unrecognizedTag(top.node)
          THEN /\ ctx' = ctx
               /\ work' = <<>>
               /\ namesTag(error', tagOf(top.node))
          ELSE error' = ""]_vars

\* the rendering of (a + (a ** b)) stopped at the inner operator, after "(a + "
C11_Witness ==
  /\ root = <<ExpressionStatement(BinaryOperatorExpr("Plus", a,
                                                     BinaryOperatorExpr("Power", a, b)))>>
  /\ error = "Unknown operator Power"
  /\ work = <<>>
  /\ ctx.lines = <<[parts |-> <<"(", "a", " + ">>,
                    srcSpans |-> <<BinarySpan, NodeSpan, BinarySpan>>, indent |-> 0]>>
  /\ ctx.classes = <<>>

(***************************************************************************)
(* C12  toSource() joins with "\n" all the lines of the buffer but a       *)
(* single trailing empty one (when the last line has no fragments exactly  *)
(* that line is left out, an empty line before it is kept; otherwise no    *)
(* line is left out), and it leaves the context as it is.  A kept line     *)
(* with fragments is its fragments concatenated in the order appended,     *)
(* after indent-many copies of the two-character indent unit (none when    *)
(* the indent is not positive).                                            *)
(***************************************************************************)
keptLines(c) ==
  LET n == Len(c.lines)
  IN IF n > 0 /\ c.lines[n].parts = <<>> THEN [i \in 1..(n - 1) |-> c.lines[i]] ELSE c.lines

RECURSIVE indentUnits(_)
indentUnits(n) == IF n > 0 THEN "  " \o indentUnits(n - 1) ELSE ""

RECURSIVE concatenated(_, _)
concatenated(parts, i) ==
  IF i > Len(parts) THEN "" ELSE parts[i] \o concatenated(parts, i + 1)

RECURSIVE joinedFrom(_, _)
joinedFrom(texts, i) ==
  IF i > Len(texts) THEN ""
  ELSE IF i = Len(texts) THEN texts[i]
  ELSE texts[i] \o "\n" \o joinedFrom(texts, i + 1)

returnedText == returned.call = "toSource"

\* as stated: every kept line is prefixed by its indentation
C12_ToSourceJoinsKeptLines ==
  returnedText =>
    returned.value =
      joinedFrom([i \in 1..Len(keptLines(ctx)) |->
                    indentUnits(keptLines(ctx)[i].indent)
                      \o concatenated(keptLines(ctx)[i].parts, 1)], 1)

\* amended: a kept line without fragments is the empty text, whatever its indent
C12_ToSourceJoinsKeptLinesEmptyOnesBare ==
  /\ [](returnedText =>
          returned.value =
            joinedFrom([i \in 1..Len(keptLines(ctx)) |->
                          IF keptLines(ctx)[i].parts = <<>> THEN ""
                          ELSE indentUnits(keptLines(ctx)[i].indent)
                                 \o concatenated(keptLines(ctx)[i].parts, 1)], 1))
  /\ [][returned'.call = "toSource" => ctx' = ctx]_vars

\* an indented line, an empty line that is kept (and has no indentation in the text)
\* and the trailing empty line that is left out
C12_Witness ==
  /\ returnedText
  /\ Len(ctx.lines) = 3
  /\ ctx.lines[1].indent = 1 /\ ctx.lines[1].parts # <<>>
  /\ ctx.lines[2].indent = 1 /\ ctx.lines[2].parts = <<>>
  /\ ctx.lines[3].parts = <<>>
  /\ returned.value = "  " \o concatenated(ctx.lines[1].parts, 1) \o "\n"

(***************************************************************************)
(* C13  The scope stack is last-in-first-out: currentClass is the class    *)
(* pushed last among those not popped yet, and null when there is none;    *)
(* popClass returns that class; popClass on an empty stack leaves it       *)
(* empty; print, println, incIndent, decIndent and removeEmptyLastLine     *)
(* leave the scope stack alone, and pushClass and popClass leave the       *)
(* lines and the indent alone.                                             *)
(***************************************************************************)
pushesIn(log, i, j) == Cardinality({k \in i..j : log[k] # PopCall})
popsIn(log, i, j) == Cardinality({k \in i..j : log[k] = PopCall})

\* the pushes of the log that no later pop has taken off
notPopped(log) ==
  {i \in 1..Len(log) :
     /\ log[i] # PopCall
     /\ \A j \in (i + 1)..Len(log) : popsIn(log, i + 1, j) <= pushesIn(log, i + 1, j)}

lastNotPopped(log) ==
  IF notPopped(log) = {} THEN Null
  ELSE log[CHOOSE i \in notPopped(log) : \A k \in notPopped(log) : k <= i]

C13_ScopeStackIsLifo ==
  /\ [](/\ currentClass(ctx) = lastNotPopped(scopeLog)
        /\ returned.call = "popClass" =>
              LET before == SubSeq(scopeLog, 1, Len(scopeLog) - 1)
              IN IF notPopped(before) = {}
                   THEN ctx.classes = <<>>
                   ELSE returned.value = lastNotPopped(before))
  /\ [][IF scopeLog' = scopeLog
          THEN ctx'.classes = ctx.classes
          ELSE ctx'.lines = ctx.lines /\ ctx'.indent = ctx.indent]_vars

\* pushClass(A), pushClass(B), popClass() gave B back and A is the current class
C13_Witness ==
  /\ scopeLog = <<"A", "B", PopCall>>
  /\ returned = Returned("popClass", "B")
  /\ currentClass(ctx) = "A"

(***************************************************************************)
(* C14  An assignment (write-variable, write-key, write-property) that is  *)
(* a sub-expression of another expression is wrapped in parentheses: only  *)
(* the expression of a statement may be emitted without them.              *)
(***************************************************************************)
\* the fragment appended first after the assignment writeLog[i] was visited
firstFragmentOf(w) ==
  LET l == ctx.lines[w.line]
  IN Fragment(l.parts[w.at + 1], l.srcSpans[w.at + 1])

hasFirstFragment(w) == w.line <= Len(ctx.lines) /\ Len(ctx.lines[w.line].parts) > w.at

C14_SubExpressionAssignmentIsWrapped ==
  \A i \in 1..Len(writeLog) :
    (writeLog[i].sub /\ hasFirstFragment(writeLog[i])) =>
      firstFragmentOf(writeLog[i]) = Fragment("(", WriteSpan)

(***************************************************************************)
(* C15  A fragment without a span produces no mapping entry and only       *)
(* advances the generated column by its width: every addMapping of a line  *)
(* is at the column, and has the source position, of a fragment of that    *)
(* line that carries a span; a line whose fragments all lack a span has    *)
(* its addLine and no addMapping; and the first addMapping of a line is at *)
(* the indentation width (indent * 2) plus the summed lengths of the       *)
(* fragments without a span that lead the line.                            *)
(***************************************************************************)
spanned(line) == {i \in 1..Len(line.srcSpans) : line.srcSpans[i] # NoSpan}

\* summed lengths of the fragments before the first one that carries a span
RECURSIVE leadingSpanlessWidth(_, _)
leadingSpanlessWidth(line, i) ==
  IF i > Len(line.srcSpans) \/ line.srcSpans[i] # NoSpan THEN 0
  ELSE Len(line.parts[i]) + leadingSpanlessWidth(line, i + 1)

C15_SpanlessFragmentsOnlyAdvanceColumn ==
  mapFor.valid =>
    /\ countOp(map, "addLine") = mapFor.startsAtLine + keptLineCount(ctx)
    /\ \A k \in 1..keptLineCount(ctx) :
         LET line == ctx.lines[k]
             ms == mappingsOfLine(map, mapFor.startsAtLine + k)
         IN /\ spanned(line) = {} => ms = <<>>
            /\ Len(ms) <= Cardinality(spanned(line))
            /\ \A j \in 1..Len(ms) :
                 \E i \in spanned(line) :
                   ms[j] = AddMapping(columnOf(line, i), spanStart(line.srcSpans[i]).file.url,
                                      spanStart(line.srcSpans[i]).line,
                                      spanStart(line.srcSpans[i]).col)
            /\ spanned(line) # {} =>
                 ms[1].col = line.indent * 2 + leadingSpanlessWidth(line, 1)

\* a line of one fragment without a span, then a line led by a fragment without a span
C15_Witness ==
  /\ mapFor.valid
  /\ Len(ctx.lines) = 2
  /\ ctx.lines[1].srcSpans = <<NoSpan>>
  /\ ctx.lines[2].srcSpans = <<NoSpan, 1>>
  /\ mappingsOfLine(map, mapFor.startsAtLine + 1) = <<>>
  /\ Len(mappingsOfLine(map, mapFor.startsAtLine + 2)) = 1
  /\ mappingsOfLine(map, mapFor.startsAtLine + 2)[1].col = Len(ctx.lines[2].parts[1])

(***************************************************************************)
(* C16  An invoke-method node with a builtin tag for which the             *)
(* builtin-method-name hook returns nothing is rendered as its receiver    *)
(* alone: no `.name(`, no argument, no separator, no `)`.  When the hook   *)
(* returns a name, or the node has no builtin tag, the fragments are the   *)
(* receiver, `.name(`, the arguments separated by `,`, and `)`.            *)
(***************************************************************************)
rootIsInvocation ==
  /\ Len(root) = 1
  /\ root[1].kind \in {"ExpressionStatement", "ReturnStatement"}
  /\ (stmtExprs(root[1])[1]).kind = "InvokeMethodExpr"

\* what the hook returns nothing for
hookReturnsNothing(e) == e.builtin # NoBuiltin /\ e.builtin \in visitor.unnamedBuiltins

\* the receivers and arguments of the invocations rendered are a, b and 1
textOf(e) == IF e = one THEN "1" ELSE e.name

RECURSIVE separatedTexts(_, _)
separatedTexts(args, i) ==
  IF i > Len(args) THEN <<>>
  ELSE (IF i > 1 THEN <<",">> ELSE <<>>) \o <<textOf(args[i])>> \o separatedTexts(args, i + 1)

invocationFragments(e) ==
  <<textOf(e.receiver)>>
    \o (IF hookReturnsNothing(e) THEN <<>>
        ELSE <<"." \o (IF e.builtin = NoBuiltin THEN e.name
                                               ELSE getBuiltinMethodName(e.builtin, visitor))
                  \o "(">>
             \o separatedTexts(e.args, 1) \o <<")">>)

C16_SkippedBuiltinRendersReceiverOnly ==
  rootIsInvocation =>
    LET e == stmtExprs(root[1])[1]
        expected == (IF root[1].kind = "ReturnStatement" THEN <<"return ">> ELSE <<>>)
                      \o invocationFragments(e) \o <<";">>
        parts == ctx.lines[1].parts
    IN /\ Len(parts) <= Len(expected)
       /\ parts = SubSeq(expected, 1, Len(parts))
       /\ rendered => parts = expected

\* a.bind(1,b) rendered by an emitter whose hook has no name for Bind
C16_Witness ==
  /\ rendered
  /\ root = <<ExpressionStatement(InvokeMethodExpr(a, "", "Bind", <<one, b>>))>>
  /\ visitor.unnamedBuiltins = {"Bind"}
  /\ toSource(ctx) = "a;"

(***************************************************************************)
(* C17  A print of the empty text leaves no fragment: print(node, "") with *)
(* newLine false leaves the whole context as it is; every fragment stored  *)
(* in a line is a non-empty text; and every line holds one span slot (a    *)
(* span or none) per fragment, in the same order: a print of a non-empty   *)
(* text appends the text to the fragments of the current line and the span *)
(* of its node (or none) to the span slots of that line, and touches no    *)
(* other line.                                                             *)
(***************************************************************************)
C17_EmptyPrintLeavesNoFragment ==
  /\ [](\A i \in 1..Len(ctx.lines) :
          /\ Len(ctx.lines[i].srcSpans) = Len(ctx.lines[i].parts)
          /\ \A j \in 1..Len(ctx.lines[i].parts) : ctx.lines[i].parts[j] # "")
  /\ [][\A from \in Froms, part \in PartTexts, newLine \in BOOLEAN :
          (callCount' # callCount /\ error' = "" /\ CallPrint(from, part, newLine)) =>
            LET n == Len(ctx.lines)
            IN /\ (part = "" /\ ~newLine) => ctx' = ctx
               /\ Len(ctx'.lines) = (IF newLine THEN n + 1 ELSE n)
               /\ \A i \in 1..(n - 1) : ctx'.lines[i] = ctx.lines[i]
               /\ (part = "" /\ n > 0) => ctx'.lines[n] = ctx.lines[n]
               /\ part # "" =>
                    /\ ctx'.lines[n].parts = Append(ctx.lines[n].parts, part)
                    /\ ctx'.lines[n].srcSpans
                         = Append(ctx.lines[n].srcSpans,
                                  IF from = NullFrom THEN NoSpan ELSE from.sourceSpan)]_vars

\* one call was made and it changed nothing: of the calls of Spec only
\* print(node, "") with newLine false does that on a root context
C17_Witness ==
  /\ callCount = 1
  /\ error = ""
  /\ scopeLog = <<>>
  /\ ctx = createRoot

(***************************************************************************)
(* C18  While a statement tree is rendered on a root context the indent    *)
(* counter and the indent recorded on every line are never negative: the   *)
(* counter is the number of incIndent calls minus the number of decIndent  *)
(* calls made so far, which is never negative, and it is back at its       *)
(* former value when a statement has been rendered (every top-level        *)
(* statement starts at indent 0 and the rendering ends at indent 0).       *)
(***************************************************************************)
C18_IndentNeverNegative ==
  /\ ctx.indent >= 0
  /\ ctx.indent = netIndent
  /\ \A i \in 1..Len(ctx.lines) : ctx.lines[i].indent >= 0
  /\ \A i \in 1..Len(stmtLog) : stmtLog[i].depth = 0 => stmtLog[i].net = 0
  /\ rendered => ctx.indent = 0

\* a rendering that went two levels deep and came back
C18_Witness ==
  /\ rendered
  /\ ctx.indent = 0
  /\ \E i \in 1..Len(ctx.lines) : ctx.lines[i].indent = 2 /\ ctx.lines[i].parts # <<>>

(***************************************************************************)
(* C19  After any sequence of print, println, incIndent, decIndent and     *)
(* removeEmptyLastLine calls on a root context the line buffer holds at    *)
(* least one line, and no call fails for want of a current line.           *)
(***************************************************************************)
C19_AlwaysACurrentLine ==
  scopeLog = <<>> => (Len(ctx.lines) >= 1 /\ error = "")

(***************************************************************************)
(* C20  The position map and the text agree: when no line has a negative   *)
(* indent, the k-th addLine after the startsAtLine leading ones stands for *)
(* the k-th line of the text of toSource, and every addMapping of that     *)
(* line has for generated column the offset in that line of the text at    *)
(* which the first fragment of the mapped run begins, indent * 2 plus the  *)
(* lengths of the fragments before it.                                     *)
(***************************************************************************)
\* the j-th smallest element of a set of numbers
nth(S, j) == CHOOSE i \in S : Cardinality({h \in S : h <= i}) = j

textLines(c) ==
  [k \in 1..Len(keptLines(c)) |->
     IF keptLines(c)[k].parts = <<>> THEN ""
     ELSE indentUnits(keptLines(c)[k].indent) \o concatenated(keptLines(c)[k].parts, 1)]

C20_MapAgreesWithText ==
  (mapFor.valid /\ \A i \in 1..Len(ctx.lines) : ctx.lines[i].indent >= 0) =>
    /\ toSource(ctx) = joinedFrom(textLines(ctx), 1)
    /\ countOp(map, "addLine") = mapFor.startsAtLine + Len(textLines(ctx))
    /\ \A k \in 1..Len(textLines(ctx)) :
         LET line == ctx.lines[k]
             ms == mappingsOfLine(map, mapFor.startsAtLine + k)
             starts == runStartsSkippingSpanless(line)
         IN /\ Len(ms) = Cardinality(starts)
            /\ \A j \in 1..Len(ms) :
                 LET i == nth(starts, j)
                     before == indentUnits(line.indent)
                                 \o concatenated(SubSeq(line.parts, 1, i - 1), 1)
                 IN /\ ms[j].col = Len(before)
                    /\ ms[j].col = line.indent * 2 + widthBefore(line.parts, i)
                    /\ textLines(ctx)[k] = before \o concatenated(line.parts, i)

\* an indented line whose mapped fragment follows a fragment without a span
C20_Witness ==
  /\ mapFor.valid
  /\ Len(ctx.lines) = 1
  /\ ctx.lines[1].indent = 1
  /\ ctx.lines[1].parts = <<"a", "bc">>
  /\ ctx.lines[1].srcSpans = <<NoSpan, 1>>
  /\ toSource(ctx) = "  abc"
  /\ mappingsOfLine(map, mapFor.startsAtLine + 1) = <<AddMapping(3, File1.url, 1, 4)>>
====
